---------------------------- MODULE Spec2Model ----------------------------
(***************************************************************************)
(* A model of the search core of klask-rs (services/search.rs): the        *)
(* single writer and the reloadable reader of the index, the write         *)
(* operations of SearchService, and the search pipeline (text leaf,        *)
(* filters, total, page, facets).                                          *)
(*                                                                         *)
(* Strings are sequences of one-character strings, so that tokenizing,     *)
(* splitting and trimming are computed and not assumed.  An Option<T> is   *)
(* the empty tuple (None) or a one-element tuple (Some(v)).                *)
(***************************************************************************)
EXTENDS Integers, Sequences, FiniteSets, TLC

VARIABLES
    pending,      \* the documents the writer holds: the last commit plus the staged operations
    committed,    \* the documents of the last writer.commit()
    reader,       \* the documents of the searcher generation the IndexReader serves
    nextAddr,     \* the stamp the next added document gets (its identity in the index)
    wpc,          \* the write operation inside its writer section, or "idle"
    spc,          \* the position of the search task
    sreq,         \* the SearchQuery of the search in flight
    searcher,     \* the snapshot the search acquired at its start
    resp,         \* the response being built, and the last one returned
    hist,         \* what the calls so far did (history, read by the properties only)
    segments,     \* the segments of the last commit: the documents each one stores, deleted ones included
    rsegments,    \* the segments of the searcher generation the IndexReader serves
    index_dir,    \* the index directory on disk: "intact", or "recreated" by reset_index
    task          \* the write task that has work to do outside its writer section

vars == <<pending, committed, reader, nextAddr, wpc, spc, sreq, searcher, resp, hist,
          segments, rsegments, index_dir, task>>

None == <<>>
Some(v) == <<v>>
IsSome(o) == o # <<>>
Unwrap(o) == o[1]

----------------------------------------------------------------------------
(* Characters and strings.                                                 *)

Upper == {"R", "S"}
Alnum == {"a", "b", "h", "i", "l", "m", "o", "p", "r", "s", "t", "x", "y",
          "0", "1", "2"} \cup Upper
Whitespace == {" "}

Lower(c) == CASE c = "R" -> "r" [] c = "S" -> "s" [] OTHER -> c

\* str::split(','): the pieces between the commas, one piece more than commas.
RECURSIVE SplitFrom(_, _, _)
SplitFrom(s, i, cur) ==
    IF i > Len(s) THEN <<cur>>
    ELSE IF s[i] = "," THEN <<cur>> \o SplitFrom(s, i + 1, <<>>)
    ELSE SplitFrom(s, i + 1, Append(cur, s[i]))

Split(s) == SplitFrom(s, 1, <<>>)

\* str::trim(): leading and trailing whitespace removed.
RECURSIVE TrimStart(_)
TrimStart(s) ==
    IF s # <<>> /\ s[1] \in Whitespace THEN TrimStart(Tail(s)) ELSE s

RECURSIVE TrimEnd(_)
TrimEnd(s) ==
    IF s # <<>> /\ s[Len(s)] \in Whitespace
    THEN TrimEnd(SubSeq(s, 1, Len(s) - 1)) ELSE s

Trim(s) == TrimEnd(TrimStart(s))

\* The tokenizer of a TEXT field ("default"): split at every character that
\* is not alphanumeric, lowercase the tokens.
RECURSIVE TokensFrom(_, _, _)
TokensFrom(s, i, cur) ==
    IF i > Len(s) THEN (IF cur = <<>> THEN {} ELSE {cur})
    ELSE IF s[i] \in Alnum THEN TokensFrom(s, i + 1, Append(cur, Lower(s[i])))
    ELSE (IF cur = <<>> THEN {} ELSE {cur}) \cup TokensFrom(s, i + 1, <<>>)

Tokenize(s) == TokensFrom(s, 1, <<>>)

\* Uuid::to_string(): the groups of the id joined by hyphens.
RECURSIVE UuidToString(_)
UuidToString(groups) ==
    IF Len(groups) = 1 THEN groups[1]
    ELSE groups[1] \o <<"-">> \o UuidToString(Tail(groups))

----------------------------------------------------------------------------
(* The schema and the terms a document is indexed under.                   *)

\* build_schema: TEXT fields are tokenized, STRING fields are indexed raw.
build_schema ==
    [file_id |-> "TEXT", file_name |-> "TEXT", file_path |-> "TEXT",
     content |-> "TEXT", repository |-> "STRING", project |-> "STRING",
     version |-> "STRING", extension |-> "STRING"]

IndexedTerms(doc, f) ==
    IF build_schema[f] = "TEXT" THEN Tokenize(doc[f]) ELSE {doc[f]}

SearchableFields == <<"content", "file_name", "file_path">>

----------------------------------------------------------------------------
(* Queries: a tagged family (term, fuzzy term, regex, range, boolean, all, *)
(* empty) and the documents each matches.                                  *)

AllQuery == [kind |-> "all"]
EmptyQuery == [kind |-> "empty"]
TermQuery(f, text) == [kind |-> "term", field |-> f, text |-> text]
FuzzyTermQuery(f, text) == [kind |-> "fuzzy", field |-> f, text |-> text]
RegexQuery(f, pat) == [kind |-> "regex", field |-> f, pat |-> pat]
RangeQuery(lo, hi) == [kind |-> "range", lo |-> lo, hi |-> hi]
BooleanQuery(clauses) == [kind |-> "bool", clauses |-> clauses]
Must(q) == [occur |-> "must", q |-> q]
Should(q) == [occur |-> "should", q |-> q]

\* Levenshtein distance at most 1, a transposition counted as one edit.
WithoutAt(s, k) == SubSeq(s, 1, k - 1) \o SubSeq(s, k + 1, Len(s))

WithinOneEdit(a, b) ==
    \/ a = b
    \/ /\ Len(a) = Len(b)
       /\ \E k \in 1..Len(a) : WithoutAt(a, k) = WithoutAt(b, k)
    \/ /\ Len(a) = Len(b) + 1
       /\ \E k \in 1..Len(a) : WithoutAt(a, k) = b
    \/ /\ Len(b) = Len(a) + 1
       /\ \E k \in 1..Len(b) : WithoutAt(b, k) = a
    \/ /\ Len(a) = Len(b)
       /\ \E k \in 1..(Len(a) - 1) :
            /\ a[k] = b[k + 1]
            /\ a[k + 1] = b[k]
            /\ \A j \in (1..Len(a)) \ {k, k + 1} : a[j] = b[j]

\* set_field_fuzzy(field, true, 1, true): prefix matching is on, so a token
\* matches when one of its prefixes is within one edit of the term.
FuzzyMatch(text, token) ==
    \E n \in 0..Len(token) : WithinOneEdit(text, SubSeq(token, 1, n))

\* A regex matches a whole term of the dictionary.  The patterns of the model
\* are made of literals, '.', an element followed by '*', and groups that
\* carry no repetition, which match what their content matches.
RECURSIVE RegexMatchFrom(_, _, _, _)
RegexMatchFrom(p, i, t, j) ==
    IF i > Len(p) THEN j > Len(t)
    ELSE IF i < Len(p) /\ p[i + 1] = "*"
    THEN \/ RegexMatchFrom(p, i + 2, t, j)
         \/ /\ j <= Len(t)
            /\ (p[i] = "." \/ p[i] = t[j])
            /\ RegexMatchFrom(p, i, t, j + 1)
    ELSE /\ j <= Len(t)
         /\ (p[i] = "." \/ p[i] = t[j])
         /\ RegexMatchFrom(p, i + 1, t, j + 1)

Ungroup(p) == SelectSeq(p, LAMBDA c : c \notin {"(", ")"})

RegexMatch(p, t) == RegexMatchFrom(Ungroup(p), 1, t, 1)

InRange(q, size) ==
    /\ (IsSome(q.lo) => Unwrap(q.lo) <= size)
    /\ (IsSome(q.hi) => size < Unwrap(q.hi))

\* Whether document doc satisfies query q.  A BooleanQuery needs all of its
\* Must clauses and, when it has none, one of its Should clauses.
RECURSIVE Matches(_, _)
Matches(q, doc) ==
    CASE q.kind = "all" -> TRUE
      [] q.kind = "empty" -> FALSE
      [] q.kind = "term" -> q.text \in IndexedTerms(doc, q.field)
      [] q.kind = "fuzzy" ->
            \E t \in IndexedTerms(doc, q.field) : FuzzyMatch(q.text, t)
      [] q.kind = "regex" ->
            \E t \in IndexedTerms(doc, q.field) : RegexMatch(q.pat, t)
      [] q.kind = "range" -> InRange(q, doc.size)
      [] q.kind = "bool" ->
            /\ \A k \in DOMAIN q.clauses :
                  q.clauses[k].occur = "must" => Matches(q.clauses[k].q, doc)
            /\ \/ \E k \in DOMAIN q.clauses : q.clauses[k].occur = "must"
               \/ \E k \in DOMAIN q.clauses :
                     q.clauses[k].occur = "should" /\ Matches(q.clauses[k].q, doc)

\* searcher.search(&query, &Count)
Count(snapshot, q) == Cardinality({d \in snapshot : Matches(q, d)})


----------------------------------------------------------------------------
(* The query builder of SearchService::search.                             *)

Ok(v) == [ok |-> TRUE, v |-> v]
Err(e) == [ok |-> FALSE, v |-> e]

RECURSIVE SetToSeq(_)
SetToSeq(S) ==
    IF S = {} THEN <<>>
    ELSE LET x == CHOOSE y \in S : TRUE IN <<x>> \o SetToSeq(S \ {x})

Occurrences(s, c) == Cardinality({i \in 1..Len(s) : s[i] = c})

\* QueryParser::parse_query over the three searchable fields: an unbalanced
\* parenthesis is a syntax error, blank text is the empty query, "*" is the
\* match-all query, and every other text is the disjunction of its tokens
\* over the fields.  With set_field_fuzzy each term is a fuzzy prefix term.
TermLeaf(f, t, fuzzy) == IF fuzzy THEN FuzzyTermQuery(f, t) ELSE TermQuery(f, t)

RECURSIVE TermClauses(_, _)
TermClauses(toks, fuzzy) ==
    IF toks = <<>> THEN <<>>
    ELSE <<Should(TermLeaf("content", Head(toks), fuzzy)),
           Should(TermLeaf("file_name", Head(toks), fuzzy)),
           Should(TermLeaf("file_path", Head(toks), fuzzy))>>
         \o TermClauses(Tail(toks), fuzzy)

TermsQuery(toks, fuzzy) ==
    IF toks = <<>> THEN EmptyQuery ELSE BooleanQuery(TermClauses(toks, fuzzy))

\* A parser that reads every text, taking a text with a syntax error for the
\* empty query.
ParseQueryLenient(text, fuzzy) ==
    IF Occurrences(text, "(") # Occurrences(text, ")") \/ Trim(text) = <<>>
    THEN Ok(EmptyQuery)
    ELSE IF text = <<"*">> THEN Ok(AllQuery)
    ELSE Ok(TermsQuery(SetToSeq(Tokenize(text)), fuzzy))

ParseQuery(text, fuzzy) ==
    IF Occurrences(text, "(") # Occurrences(text, ")")
    THEN Err("Failed to parse query")
    ELSE IF Trim(text) = <<>> THEN Ok(EmptyQuery)
    ELSE IF text = <<"*">> THEN Ok(AllQuery)
    ELSE Ok(TermsQuery(SetToSeq(Tokenize(text)), fuzzy))

\* RegexQuery::from_pattern: the pattern is compiled; a repetition with
\* nothing to repeat or an unbalanced group does not compile.
RegexFromPattern(pat, f) ==
    IF \/ \E i \in 1..Len(pat) :
             /\ pat[i] \in {"*", "+", "?"}
             /\ (i = 1 \/ pat[i - 1] \in {"(", "|"})
       \/ Occurrences(pat, "(") # Occurrences(pat, ")")
    THEN Err("regex does not compile")
    ELSE Ok(RegexQuery(f, pat))

\* A text leaf for which the fuzzy flag takes priority over the regex flag.
BaseQueryFuzzyFirst(sq) ==
    IF sq.regex_search /\ ~sq.fuzzy_search
    THEN IF RegexFromPattern(sq.query, "content").ok
         THEN Ok(BooleanQuery(<<Should(RegexQuery("content", sq.query)),
                                Should(RegexQuery("file_name", sq.query)),
                                Should(RegexQuery("file_path", sq.query))>>))
         ELSE Err("Invalid regex pattern")
    ELSE ParseQuery(sq.query, sq.fuzzy_search)

\* search, lines 435-509: the text leaf of the active mode.
BaseQuery(sq) ==
    IF sq.regex_search
    THEN LET content == RegexFromPattern(sq.query, "content")
             name == RegexFromPattern(sq.query, "file_name")
             path == RegexFromPattern(sq.query, "file_path")
             clauses ==
                 <<Should(content.v)>>
                 \o (IF name.ok THEN <<Should(name.v)>> ELSE <<>>)
                 \o (IF path.ok THEN <<Should(path.v)>> ELSE <<>>)
         IN IF ~content.ok THEN Err("Invalid regex pattern")
            ELSE IF clauses = <<>>
            THEN Err("Regex pattern did not match any searchable fields")
            ELSE Ok(BooleanQuery(clauses))
    ELSE ParseQuery(sq.query, sq.fuzzy_search)

\* search, lines 563-653: one dimension's filter; the pieces are trimmed and
\* all of them are kept.
RECURSIVE TrimAll(_)
TrimAll(parts) ==
    IF parts = <<>> THEN <<>> ELSE <<Trim(Head(parts))>> \o TrimAll(Tail(parts))

SearchFilterValues(filter) == TrimAll(Split(filter))

RECURSIVE ShouldTerms(_, _)
ShouldTerms(f, values) ==
    IF values = <<>> THEN <<>>
    ELSE <<Should(TermQuery(f, Head(values)))>> \o ShouldTerms(f, Tail(values))

AnyOfQuery(f, values) ==
    IF Len(values) = 1 THEN TermQuery(f, values[1])
    ELSE BooleanQuery(ShouldTerms(f, values))

DimensionFilterQuery(f, filter) == AnyOfQuery(f, SearchFilterValues(filter))

\* search, lines 655-670: inclusive minimum, exclusive maximum.
\* A size range that admits its upper bound.
SizeRangeClosed(min_size, max_size) ==
    RangeQuery(min_size, IF IsSome(max_size) THEN Some(Unwrap(max_size) + 1) ELSE None)

SizeRangeQuery(min_size, max_size) == RangeQuery(min_size, max_size)

Dimensions == <<"repository", "project", "version", "extension">>

FilterOf(sq, dim) ==
    CASE dim = "repository" -> sq.repository_filter
      [] dim = "project" -> sq.project_filter
      [] dim = "version" -> sq.version_filter
      [] dim = "extension" -> sq.extension_filter

RECURSIVE FilterQueriesFrom(_, _)
FilterQueriesFrom(sq, k) ==
    IF k > Len(Dimensions) THEN <<>>
    ELSE (IF IsSome(FilterOf(sq, Dimensions[k]))
          THEN <<DimensionFilterQuery(Dimensions[k], Unwrap(FilterOf(sq, Dimensions[k])))>>
          ELSE <<>>)
         \o FilterQueriesFrom(sq, k + 1)

FilterQueries(sq) ==
    FilterQueriesFrom(sq, 1)
    \o (IF IsSome(sq.min_size) \/ IsSome(sq.max_size)
        THEN <<SizeRangeQuery(sq.min_size, sq.max_size)>> ELSE <<>>)

\* search, lines 672-681: the base query and every filter, all required.
RECURSIVE MustAll(_)
MustAll(qs) ==
    IF qs = <<>> THEN <<>> ELSE <<Must(Head(qs))>> \o MustAll(Tail(qs))

FinalQuery(base, filters) ==
    IF filters # <<>> THEN BooleanQuery(<<Must(base)>> \o MustAll(filters)) ELSE base

\* The matching documents in the order TopDocs gives them (the score is not
\* modelled: ties are broken by the document address).
RECURSIVE ByAddress(_)
ByAddress(S) ==
    IF S = {} THEN <<>>
    ELSE LET d == CHOOSE x \in S : \A y \in S : x.addr <= y.addr
         IN <<d>> \o ByAddress(S \ {d})

Page(ranked, limit, offset) ==
    SubSeq(ranked, offset + 1,
           IF offset + limit < Len(ranked) THEN offset + limit ELSE Len(ranked))

TopDocs(snapshot, q, limit, offset) ==
    Page(ByAddress({d \in snapshot : Matches(q, d)}), limit, offset)

----------------------------------------------------------------------------
(* The facet aggregator: collect_facets_from_search_results.               *)

\* The text query of every facet query: blank text and "*" match all, other
\* text is parsed by the plain query parser, and text that does not parse
\* matches all.
FacetTextQuery(sq) ==
    IF Trim(sq.query) = <<>> \/ sq.query = <<"*">> THEN AllQuery
    ELSE LET parsed == ParseQuery(sq.query, FALSE)
         IN IF parsed.ok THEN parsed.v ELSE AllQuery

\* The facet queries keep the non-empty trimmed pieces of a filter.
NonEmpty(piece) == piece # <<>>

FacetFilterValues(filter) == SelectSeq(SearchFilterValues(filter), NonEmpty)

FacetFilterClause(dim, values) ==
    IF values # <<>> THEN <<Must(BooleanQuery(ShouldTerms(dim, values)))>> ELSE <<>>

RECURSIVE FacetFilterClausesFrom(_, _, _)
FacetFilterClausesFrom(sq, include, k) ==
    IF k > Len(Dimensions) THEN <<>>
    ELSE (IF include[Dimensions[k]] /\ IsSome(FilterOf(sq, Dimensions[k]))
          THEN FacetFilterClause(Dimensions[k],
                                 FacetFilterValues(Unwrap(FilterOf(sq, Dimensions[k]))))
          ELSE <<>>)
         \o FacetFilterClausesFrom(sq, include, k + 1)

\* build_query_with_filters(include_repository, include_project,
\* include_version, include_extension)
Conjunction(clauses) ==
    IF Len(clauses) = 1 THEN clauses[1].q ELSE BooleanQuery(clauses)

build_query_with_filters(sq, include) ==
    Conjunction(<<Must(FacetTextQuery(sq))>> \o FacetFilterClausesFrom(sq, include, 1))

\* A facet query that keeps the filter of its own dimension.
EveryDimension(dim) == [d \in {"repository", "project", "version", "extension"} |-> TRUE]

AllBut(dim) == [d \in {"repository", "project", "version", "extension"} |-> d # dim]
AllDimensions == [d \in {"repository", "project", "version", "extension"} |-> TRUE]

\* A terms aggregation on a fast field: one bucket per value that occurs on a
\* matching document, with the number of those documents.  The bucket
\* capacities (1000 and 10000) are far above the sizes of the model, and the
\* order of the buckets is not modelled.
Buckets(hits, f) ==
    {<<v, Cardinality({d \in hits : d[f] = v})>> : v \in {d[f] : d \in hits}}

TermsAggregation(snapshot, q, f) == Buckets({d \in snapshot : Matches(q, d)}, f)

TermFacets(snapshot, sq, dim) ==
    TermsAggregation(snapshot, build_query_with_filters(sq, AllBut(dim)), dim)

SIZE_BUCKETS ==
    <<[label |-> "< 1 KB", min |-> None, max |-> Some(1024)],
      [label |-> "1 KB - 10 KB", min |-> Some(1024), max |-> Some(10 * 1024)],
      [label |-> "10 KB - 100 KB", min |-> Some(10 * 1024), max |-> Some(100 * 1024)],
      [label |-> "100 KB - 1 MB", min |-> Some(100 * 1024), max |-> Some(1024 * 1024)],
      [label |-> "> 1 MB", min |-> Some(1024 * 1024), max |-> None]>>

\* A bucket query that also keeps the request's own size range.
SizeBucketQueryInRange(sq, min_size, max_size) ==
    BooleanQuery(<<Must(FacetTextQuery(sq))>>
                 \o FacetFilterClausesFrom(sq, AllDimensions, 1)
                 \o <<Must(RangeQuery(min_size, max_size)),
                      Must(RangeQuery(sq.min_size, sq.max_size))>>)

\* A bucket query whose range admits its upper bound.
SizeBucketQueryClosed(sq, min_size, max_size) ==
    BooleanQuery(<<Must(FacetTextQuery(sq))>>
                 \o FacetFilterClausesFrom(sq, AllDimensions, 1)
                 \o <<Must(SizeRangeClosed(min_size, max_size))>>)

\* get_size_bucket_query(min_size, max_size): the text query, the four
\* filters and the bucket's range; the request's own size range is left out.
get_size_bucket_query(sq, min_size, max_size) ==
    Conjunction(<<Must(FacetTextQuery(sq))>>
                \o FacetFilterClausesFrom(sq, AllDimensions, 1)
                \o <<Must(RangeQuery(min_size, max_size))>>)

SizeRangeFacets(snapshot, sq) ==
    [k \in 1..Len(SIZE_BUCKETS) |->
        <<SIZE_BUCKETS[k].label,
          Count(snapshot, get_size_bucket_query(sq, SIZE_BUCKETS[k].min, SIZE_BUCKETS[k].max))>>]

collect_facets_from_search_results(snapshot, sq) ==
    [repositories |-> TermFacets(snapshot, sq, "repository"),
     projects |-> TermFacets(snapshot, sq, "project"),
     versions |-> TermFacets(snapshot, sq, "version"),
     extensions |-> TermFacets(snapshot, sq, "extension"),
     size_ranges |-> SizeRangeFacets(snapshot, sq)]

----------------------------------------------------------------------------
(* The inputs of the model.                                                *)

MaxAdds == 3

\* SearchQuery::new: the default page size.
DefaultLimit == 10

S_hi == <<"h", "i">>
S_yo == <<"y", "o">>
S_r1 == <<"r", "1">>
S_r2 == <<"r", "2">>
S_p1 == <<"p", "1">>
S_p2 == <<"p", "2">>
S_main == <<"m", "a", "i", "n">>
S_rs == <<"r", "s">>
S_ars == <<"a", ".", "r", "s">>

\* Two file ids; an id is the sequence of its hyphen-separated groups.
Uuid1 == <<<<"a", "0">>, <<"1">>>>
Uuid2 == <<<<"b", "0">>, <<"2">>>>
FileIds == {Uuid1, Uuid2}

\* The FileData records the write operations are called with.
FileInputs ==
    [file_id : FileIds, file_name : {S_ars}, file_path : {S_ars},
     content : {S_hi, S_yo}, repository : {S_r1}, project : {S_p1},
     version : {S_main}, extension : {S_rs}, size : {512}]

\* doc!(...): the stored document; addr is its address in the index.
NewDoc(fd, addr) ==
    [addr |-> addr, file_id |-> UuidToString(fd.file_id),
     file_name |-> fd.file_name, file_path |-> fd.file_path,
     content |-> fd.content, repository |-> fd.repository,
     project |-> fd.project, version |-> fd.version,
     extension |-> fd.extension, size |-> fd.size]

Stored(doc) == [f \in (DOMAIN doc) \ {"addr"} |-> doc[f]]

\* writer.delete_query(q) / writer.delete_term(t): every document the writer
\* holds that matches is removed.
DeleteQuery(docs, q) == {d \in docs : ~Matches(q, d)}

FileIdTerm(file_id) == TermQuery("file_id", UuidToString(file_id))

PlainRequest(text) ==
    [query |-> text, repository_filter |-> None, project_filter |-> None,
     version_filter |-> None, extension_filter |-> None, min_size |-> None,
     max_size |-> None, limit |-> DefaultLimit, offset |-> 0,
     include_facets |-> FALSE,
     fuzzy_search |-> FALSE, regex_search |-> FALSE]

\* The searches issued while the index changes.
IndexRequests ==
    {PlainRequest(S_hi), [PlainRequest(<<"*">>) EXCEPT !.include_facets = TRUE]}

\* The committed documents the searches of SpecSearch run on.
PoolDoc(addr, id, content, repository, project, extension, size) ==
    [addr |-> addr, file_id |-> UuidToString(id), file_name |-> S_ars,
     file_path |-> S_ars, content |-> content, repository |-> repository,
     project |-> project, version |-> S_main, extension |-> extension,
     size |-> size]

Uuid3 == <<<<"a", "1">>, <<"1">>>>
Uuid4 == <<<<"b", "1">>, <<"2">>>>

Pool ==
    {PoolDoc(1, Uuid1, S_hi, S_r1, S_p1, S_rs, 512),
     PoolDoc(2, Uuid2, <<"h", "i", " ", "y", "o">>, S_r2, S_p1, <<"R", "S">>, 1024),
     PoolDoc(3, Uuid3, S_yo, S_r1, S_p2, <<>>, 2048),
     PoolDoc(4, Uuid4, <<"h", "i", "t">>, S_r1, S_p1, S_rs, 1024)}

Corpora == {Pool}

MaxOffset == 1

QueryTexts == {S_hi, <<"h", ".">>, <<"*">>, <<>>, <<"(">>}

Requests ==
    [query : QueryTexts,
     repository_filter : {None, Some(S_r1), Some(<<"r", "1", ",", " ", "r", "2">>)},
     project_filter : {None, Some(S_p1)},
     version_filter : {None, Some(<<" ", "m", "a", "i", "n">>)},
     extension_filter : {None, Some(S_rs), Some(<<"r", "s", ",">>)},
     min_size : {None, Some(1024)},
     max_size : {None, Some(2048)},
     limit : {0, 1, DefaultLimit},
     offset : {0, MaxOffset},
     include_facets : {TRUE},
     fuzzy_search : BOOLEAN,
     regex_search : BOOLEAN]

\* error is the message of the Err a failed search returns.
NoResponse ==
    [status |-> "none", total |-> 0, results |-> <<>>, facets |-> None, error |-> ""]

----------------------------------------------------------------------------
(* The state machine.                                                      *)

\* No reset_index or apply_merge_policy is in progress. stats and health are
\* the IndexStatsResponse a health check is given and the IndexHealthResponse
\* it returns; env is the environment of the process, config the TantivyConfig
\* load_config returns and writer the IndexWriter SearchService::new builds;
\* snapshot, old_project and new_project are the searcher and the arguments
\* of an update_project_name that waits for the writer lock.
NoTask ==
    [op |-> "none", pc |-> "idle", segments_before |-> 0, documents_before |-> 0,
     segments_after |-> 0, documents_after |-> 0, stats |-> None, health |-> None,
     env |-> None, config |-> None, writer |-> None,
     snapshot |-> {}, old_project |-> <<>>, new_project |-> <<>>]

\* The operations that commit under the writer lock and reload the reader
\* before they release it.
WriterSections ==
    {"commit", "delete_project_documents", "update_project_name", "reset_index"}

TaskVars == <<index_dir, task>>

DocsOf(segment) == {segment[k] : k \in 1..Len(segment)}

\* The segments after writer.commit(): a segment none of whose documents is
\* live is dropped, the others keep the documents they store, and the live
\* documents no segment stores yet are flushed to one new segment.
Flushed(segs, live) ==
    LET stored == UNION {DocsOf(segs[k]) : k \in 1..Len(segs)}
        kept == SelectSeq(segs, LAMBDA segment : DocsOf(segment) \cap live # {})
    IN  IF live \subseteq stored THEN kept ELSE Append(kept, ByAddress(live \ stored))

InitHist ==
    [lastUpsert |-> [u \in FileIds |-> None],
     onlyUpserts |-> TRUE,
     visible |-> {},
     expect |-> {},
     fresh |-> FALSE,
     snapAtStart |-> {},
     mustSee |-> None,
     movedAt |-> "none",
     undeleted |-> {},
     rename |-> None,
     owed |-> None,
     poisoned |-> FALSE,
     renames |-> {},
     dropped |-> FALSE,
     decoded |-> None,
     failure |-> None]

Init ==
    /\ pending = {}
    /\ committed = {}
    /\ reader = {}
    /\ nextAddr = 1
    /\ wpc = "idle"
    /\ spc = "idle"
    /\ sreq = PlainRequest(<<>>)
    /\ searcher = {}
    /\ resp = NoResponse
    /\ hist = InitHist
    /\ segments = <<>>
    /\ rsegments = <<>>
    /\ index_dir = "intact"
    /\ task = NoTask

SearchVars == <<spc, sreq, searcher, resp>>

\* index_file: add the document, nothing is deleted.
index_file(fd) ==
    /\ wpc = "idle"
    /\ nextAddr <= MaxAdds
    /\ pending' = pending \cup {NewDoc(fd, nextAddr)}
    /\ nextAddr' = nextAddr + 1
    /\ hist' = [hist EXCEPT !.onlyUpserts = FALSE]
    /\ UNCHANGED <<committed, reader, wpc, SearchVars, segments, rsegments, TaskVars>>

\* upsert_file: delete by the file_id term, then add.
upsert_file(fd) ==
    /\ wpc = "idle"
    /\ nextAddr <= MaxAdds
    /\ pending' = DeleteQuery(pending, FileIdTerm(fd.file_id)) \cup {NewDoc(fd, nextAddr)}
    /\ nextAddr' = nextAddr + 1
    /\ hist' = [hist EXCEPT !.lastUpsert[fd.file_id] = Some(fd)]
    /\ UNCHANGED <<committed, reader, wpc, SearchVars, segments, rsegments, TaskVars>>

\* delete_file: delete by the file_id term.
delete_file(file_id) ==
    /\ wpc = "idle"
    /\ pending' = DeleteQuery(pending, FileIdTerm(file_id))
    /\ hist' = [hist EXCEPT !.onlyUpserts = FALSE]
    /\ UNCHANGED <<committed, reader, nextAddr, wpc, SearchVars, segments, rsegments, TaskVars>>

\* What every writer.commit() does to the history.
Published(h, docs) ==
    [h EXCEPT !.fresh = FALSE, !.expect = {}, !.undeleted = {}, !.owed = None]

\* commit, first half: writer.commit() under the writer lock.
commit ==
    /\ wpc = "idle"
    /\ committed' = pending
    /\ wpc' = "commit"
    /\ hist' = [Published(hist, pending) EXCEPT !.expect = pending]
    /\ segments' = Flushed(segments, committed')
    /\ UNCHANGED <<pending, reader, nextAddr, SearchVars, rsegments, TaskVars>>

\* delete_project_documents: delete by the repository term, commit.
delete_project_documents(repository) ==
    /\ wpc = "idle"
    /\ LET left == DeleteQuery(pending, TermQuery("repository", repository))
       IN /\ pending' = left
          /\ committed' = left
          /\ hist' = [Published(hist, left) EXCEPT
                        !.onlyUpserts = FALSE,
                        !.undeleted = {d \in reader :
                                         Matches(TermQuery("repository", repository), d)}]
    /\ wpc' = "delete_project_documents"
    /\ segments' = Flushed(segments, committed')
    /\ UNCHANGED <<reader, nextAddr, SearchVars, rsegments, TaskVars>>

\* What a rename that adds the documents added does to the documents docs
\* the writer holds: the stamps of the documents it removes and of those it
\* adds (for the history).
RenameRecord(docs, added, old_project) ==
    IF added = {} THEN {}
    ELSE {[removed |-> {d.addr : d \in {e \in docs : e.project = old_project}},
           added |-> {d.addr : d \in added}]}

\* A rename whose task is dropped between its adds and its delete: the copies
\* stay staged, the documents of the old project stay too.
RenameDroppedAfterAdds(old_project, new_project) ==
    /\ wpc = "idle"
    /\ LET top_docs == ByAddress({d \in reader :
                           Matches(TermQuery("project", old_project), d)})
           added == {[top_docs[k] EXCEPT !.addr = nextAddr + k - 1,
                                         !.project = new_project] :
                        k \in 1..Len(top_docs)}
       IN /\ nextAddr + Len(top_docs) - 1 <= MaxAdds
          /\ nextAddr' = nextAddr + Len(top_docs)
          /\ pending' = pending \cup added
          /\ hist' = [hist EXCEPT
                        !.onlyUpserts = FALSE,
                        !.dropped = TRUE,
                        !.renames = @ \cup RenameRecord(pending, added, old_project)]
    /\ UNCHANGED <<committed, reader, wpc, SearchVars, segments, rsegments, TaskVars>>

\* update_project_name: every document of the reader's snapshot with the old
\* project is added again with the new project, then the old project's
\* documents are deleted and the writer commits.
update_project_name(old_project, new_project) ==
    /\ wpc = "idle"
    /\ LET top_docs == ByAddress({d \in reader :
                           Matches(TermQuery("project", old_project), d)})
           added == {[top_docs[k] EXCEPT !.addr = nextAddr + k - 1,
                                         !.project = new_project] :
                        k \in 1..Len(top_docs)}
           left == DeleteQuery(pending \cup added, TermQuery("project", old_project))
       IN /\ nextAddr + Len(top_docs) - 1 <= MaxAdds
          /\ nextAddr' = nextAddr + Len(top_docs)
          /\ pending' = left
          /\ committed' = left
          /\ hist' = [Published(hist, left) EXCEPT
                        !.onlyUpserts = FALSE,
                        !.rename = Some([before |-> pending, old |-> old_project,
                                         new |-> new_project,
                                         count |-> Len(top_docs)]),
                        !.renames = @ \cup RenameRecord(pending, added, old_project)]
    /\ wpc' = "update_project_name"
    /\ segments' = Flushed(segments, committed')
    /\ UNCHANGED <<reader, SearchVars, rsegments, TaskVars>>

\* reset_index, lines 404-411: the index directory is removed and created
\* again and a new empty index is created in it, before the writer lock is
\* asked for; the task then waits for the lock.
reset_index_recreate ==
    /\ task.pc = "idle"
    /\ index_dir' = "recreated"
    /\ task' = [NoTask EXCEPT !.op = "reset_index", !.pc = "lock"]
    /\ UNCHANGED <<pending, committed, reader, nextAddr, wpc, SearchVars, hist,
                   segments, rsegments>>

\* reset_index, lines 415-417, with the lock: delete_all_documents, commit.
reset_index ==
    /\ task.op = "reset_index"
    /\ task.pc = "lock"
    /\ wpc = "idle"
    /\ pending' = {}
    /\ committed' = {}
    /\ wpc' = "reset_index"
    /\ hist' = [Published(hist, {}) EXCEPT !.onlyUpserts = FALSE]
    /\ segments' = Flushed(segments, committed')
    /\ index_dir' = "intact"
    /\ task' = NoTask
    /\ UNCHANGED <<reader, nextAddr, SearchVars, rsegments>>

\* clear_index: delete_all_documents, commit; the reader is not reloaded.
clear_index ==
    /\ wpc = "idle"
    /\ pending' = {}
    /\ committed' = {}
    /\ hist' = [Published(hist, {}) EXCEPT !.onlyUpserts = FALSE, !.undeleted = reader,
                                            !.owed = Some({})]
    /\ segments' = Flushed(segments, committed')
    /\ UNCHANGED <<reader, nextAddr, wpc, SearchVars, rsegments, TaskVars>>

\* commit whose writer.commit() returns an error: the `?` of line 292 returns
\* it before the reader is reloaded and nothing is published.  The service
\* keeps the writer; the library either leaves it usable or has stopped its
\* indexing threads, after which every call on it fails.
commit_failed(killed) ==
    /\ wpc = "idle"
    /\ wpc' = IF killed THEN "killed" ELSE "idle"
    /\ hist' = [hist EXCEPT !.poisoned = TRUE]
    /\ UNCHANGED <<pending, committed, reader, nextAddr, SearchVars,
                   segments, rsegments, TaskVars>>

\* apply_merge_policy, lines 1791-1793: collect_detailed_metrics reads the
\* segment count and the document count of the reader's searcher.
merge_measure ==
    /\ task.pc = "idle"
    /\ task' = [NoTask EXCEPT !.op = "apply_merge_policy", !.pc = "commit",
                              !.segments_before = Len(rsegments),
                              !.documents_before = Cardinality(reader)]
    /\ UNCHANGED <<pending, committed, reader, nextAddr, wpc, SearchVars, hist,
                   segments, rsegments, index_dir>>

\* apply_merge_policy, line 1796: self.commit(), its writer.commit().
merge_commit ==
    /\ task.op = "apply_merge_policy"
    /\ task.pc = "commit"
    /\ wpc = "idle"
    /\ committed' = pending
    /\ segments' = Flushed(segments, pending)
    /\ wpc' = "apply_merge_policy"
    /\ task' = [task EXCEPT !.pc = "reload"]
    /\ hist' = Published(hist, pending)
    /\ UNCHANGED <<pending, reader, nextAddr, SearchVars, rsegments, index_dir>>

\* A commit() that kept its guard while apply_merge_policy goes on to ask for
\* the lock again.
MergeReloadKeepsTheLock ==
    /\ task.pc = "reload"
    /\ wpc = "apply_merge_policy"
    /\ reader' = committed
    /\ rsegments' = segments
    /\ task' = [task EXCEPT !.pc = "lock"]
    /\ hist' = [hist EXCEPT !.visible = @ \cup {d.file_id : d \in committed}]
    /\ UNCHANGED <<pending, committed, nextAddr, wpc, SearchVars, segments, index_dir>>

\* apply_merge_policy, line 1796: the reload of self.commit(), which then
\* releases the lock; the task goes on to ask for the lock again.
merge_reload ==
    /\ task.pc = "reload"
    /\ wpc = "apply_merge_policy"
    /\ reader' = committed
    /\ rsegments' = segments
    /\ wpc' = "idle"
    /\ task' = [task EXCEPT !.pc = "lock"]
    /\ hist' = [hist EXCEPT !.visible = @ \cup {d.file_id : d \in committed}]
    /\ UNCHANGED <<pending, committed, nextAddr, SearchVars, segments, index_dir>>

\* apply_merge_policy, lines 1799-1809: the second writer.commit() with the
\* lock, the lock released, the reader reloaded and the metrics read again.
merge_finish ==
    /\ task.op = "apply_merge_policy"
    /\ task.pc = "lock"
    /\ wpc = "idle"
    /\ committed' = pending
    /\ segments' = Flushed(segments, pending)
    /\ reader' = pending
    /\ rsegments' = segments'
    /\ task' = [task EXCEPT !.pc = "done",
                            !.segments_after = Len(segments'),
                            !.documents_after = Cardinality(pending)]
    /\ hist' = [Published(hist, pending) EXCEPT
                  !.visible = @ \cup {d.file_id : d \in pending},
                  !.owed = Some(pending)]
    /\ UNCHANGED <<pending, nextAddr, wpc, SearchVars, index_dir>>

\* apply_merge_policy returns its OptimizeIndexResponse.
merge_return ==
    /\ task.pc = "done"
    /\ task' = NoTask
    /\ UNCHANGED <<pending, committed, reader, nextAddr, wpc, SearchVars, hist,
                   segments, rsegments, index_dir>>

\* The caller drops reset_index or apply_merge_policy while the task waits
\* for the writer lock, the one kind of point where these tasks can be
\* suspended.
task_dropped ==
    /\ task.pc \in {"commit", "lock"}
    /\ task' = NoTask
    /\ hist' = [hist EXCEPT !.dropped = TRUE]
    /\ UNCHANGED <<pending, committed, reader, nextAddr, wpc, SearchVars,
                   segments, rsegments, index_dir>>

\* What a reader that loads generation docs does to the history.
Loaded(h, docs) ==
    [h EXCEPT !.visible = @ \cup {d.file_id : d \in docs},
              !.movedAt = IF spc # "idle" /\ docs # reader THEN spc ELSE @]

\* A reload that leaves the reader on the generation it had.
reader_reload_noop ==
    /\ wpc \in WriterSections
    /\ wpc' = "idle"
    /\ hist' = [hist EXCEPT !.fresh = (wpc = "commit"), !.rename = None,
                             !.owed = Some(committed)]
    /\ UNCHANGED <<pending, committed, reader, nextAddr, SearchVars, segments, rsegments, TaskVars>>

\* self.reader.reload() at the end of commit, delete_project_documents,
\* update_project_name and reset_index; the operation then returns.
reader_reload ==
    /\ wpc \in WriterSections
    /\ reader' = committed
    /\ wpc' = "idle"
    /\ hist' = [Loaded(hist, committed) EXCEPT !.fresh = (wpc = "commit"), !.rename = None,
                                                !.owed = Some(committed)]
    /\ rsegments' = segments
    /\ UNCHANGED <<pending, committed, nextAddr, SearchVars, segments, TaskVars>>

\* The reader of index.reader() follows the commits on its own
\* (ReloadPolicy::OnCommitWithDelay).
reader_on_commit ==
    /\ reader # committed
    /\ reader' = committed
    /\ hist' = Loaded(hist, committed)
    /\ rsegments' = segments
    /\ UNCHANGED <<pending, committed, nextAddr, wpc, SearchVars, segments, TaskVars>>

----------------------------------------------------------------------------
(* SearchService::search, in the order of its steps.                       *)

\* A search that asks the reader for a new Searcher at every step.
SearcherPerStep == reader

\* The Searcher every step of one search reads: acquired once, line 426.
SearchSnapshot == searcher

\* A SearchResult: the stored fields of the document and its address.
SearchResultOf(doc) ==
    [file_id |-> doc.file_id, doc_address |-> doc.addr,
     file_name |-> doc.file_name, file_path |-> doc.file_path,
     repository |-> doc.repository, project |-> doc.project,
     version |-> doc.version, extension |-> doc.extension]

\* A total that counts the documents of the returned page only.
TotalOfPage(snapshot, sq) ==
    Len(TopDocs(snapshot, FinalQuery(BaseQuery(sq).v, FilterQueries(sq)),
                IF sq.limit = 0 THEN 1 ELSE sq.limit, sq.offset))

\* The total of the final query on a snapshot (the Count collector).
SearchTotal(snapshot, sq) ==
    Count(snapshot, FinalQuery(BaseQuery(sq).v, FilterQueries(sq)))

\* The page of results: TopDocs with the effective limit and the offset, and
\* no result at all when the limit is 0.
RECURSIVE ResultsOf(_)
ResultsOf(top_docs) ==
    IF top_docs = <<>> THEN <<>>
    ELSE <<SearchResultOf(Head(top_docs))>> \o ResultsOf(Tail(top_docs))

\* Results that are built from the page even when the limit is 0.
ResultsOfEffectiveLimit(snapshot, sq) ==
    ResultsOf(TopDocs(snapshot, FinalQuery(BaseQuery(sq).v, FilterQueries(sq)),
                      IF sq.limit = 0 THEN 1 ELSE sq.limit, sq.offset))

SearchResults(snapshot, sq) ==
    IF sq.limit > 0
    THEN ResultsOf(TopDocs(snapshot, FinalQuery(BaseQuery(sq).v, FilterQueries(sq)),
                           IF sq.limit = 0 THEN 1 ELSE sq.limit, sq.offset))
    ELSE <<>>

\* The searcher is acquired and the text leaf is built; a text that does not
\* parse or compile ends the search with an error.
search_start(sq) ==
    /\ spc = "idle"
    /\ resp.status = "none"
    /\ searcher' = reader
    /\ sreq' = sq
    /\ IF BaseQuery(sq).ok
       THEN /\ spc' = "collect"
            /\ resp' = [NoResponse EXCEPT !.status = "running"]
       ELSE /\ spc' = "idle"
            /\ resp' = [NoResponse EXCEPT !.status = "err", !.error = BaseQuery(sq).v]
    /\ hist' = [hist EXCEPT
                  !.snapAtStart = reader,
                  !.mustSee = IF hist.fresh THEN Some(hist.expect) ELSE None,
                  !.movedAt = "none"]
    /\ UNCHANGED <<pending, committed, reader, nextAddr, wpc, segments, rsegments, TaskVars>>

\* A call of search arrives with one of the given requests while no other
\* search is in progress.
search(requests) ==
    /\ spc = "idle"
    /\ \E sq \in requests : search_start(sq)

\* The total and the page of results.
search_collect ==
    /\ spc = "collect"
    /\ resp' = [resp EXCEPT !.total = SearchTotal(SearchSnapshot, sreq),
                            !.results = SearchResults(SearchSnapshot, sreq)]
    /\ spc' = "facets"
    /\ UNCHANGED <<pending, committed, reader, nextAddr, wpc,
                   sreq, searcher, hist, segments, rsegments, TaskVars>>

\* The facets, when requested, one dimension at a step in the order
\* collect_facets_from_search_results computes them; after the last one the
\* search returns.
FacetSteps ==
    <<"facets", "project_facets", "version_facets", "extension_facets",
      "size_range_facets", "done">>

FacetOrder == <<"repositories", "projects", "versions", "extensions", "size_ranges">>

NoFacets ==
    [repositories |-> {}, projects |-> {}, versions |-> {}, extensions |-> {},
     size_ranges |-> <<>>]

FacetValue(snapshot, sq, field) ==
    CASE field = "repositories" -> TermFacets(snapshot, sq, "repository")
      [] field = "projects" -> TermFacets(snapshot, sq, "project")
      [] field = "versions" -> TermFacets(snapshot, sq, "version")
      [] field = "extensions" -> TermFacets(snapshot, sq, "extension")
      [] field = "size_ranges" -> SizeRangeFacets(snapshot, sq)

WithFacet(facets, field, value) == [facets EXCEPT ![field] = value]

search_facets ==
    /\ \E k \in 1..Len(FacetOrder) :
          /\ spc = FacetSteps[k]
          /\ IF sreq.include_facets
             THEN /\ resp' = [resp EXCEPT
                               !.status = IF k = Len(FacetOrder) THEN "ok" ELSE @,
                               !.facets = Some(WithFacet(
                                   IF k = 1 THEN NoFacets ELSE Unwrap(@),
                                   FacetOrder[k],
                                   FacetValue(SearchSnapshot, sreq, FacetOrder[k])))]
                  /\ spc' = FacetSteps[k + 1]
             ELSE /\ k = 1
                  /\ resp' = [resp EXCEPT !.status = "ok", !.facets = None]
                  /\ spc' = "done"
    /\ UNCHANGED <<pending, committed, reader, nextAddr, wpc,
                   sreq, searcher, hist, segments, rsegments, TaskVars>>

\* The caller takes the response; the searcher is dropped.
search_return ==
    /\ spc = "done" \/ (spc = "idle" /\ resp.status = "err")
    /\ spc' = "idle"
    /\ sreq' = PlainRequest(<<>>)
    /\ searcher' = {}
    /\ resp' = NoResponse
    /\ hist' = [hist EXCEPT !.snapAtStart = {}, !.mustSee = None, !.movedAt = "none"]
    /\ UNCHANGED <<pending, committed, reader, nextAddr, wpc, segments, rsegments, TaskVars>>

\* The caller drops the search at its await, line 758: the Searcher and the
\* response built so far are released.
search_dropped ==
    /\ spc = "facets"
    /\ spc' = "idle"
    /\ sreq' = PlainRequest(<<>>)
    /\ searcher' = {}
    /\ resp' = NoResponse
    /\ hist' = [hist EXCEPT !.snapAtStart = {}, !.mustSee = None, !.movedAt = "none",
                             !.dropped = TRUE]
    /\ UNCHANGED <<pending, committed, reader, nextAddr, wpc, segments, rsegments, TaskVars>>

\* The write operations and the reader.
Next ==
    \/ \E fd \in FileInputs : index_file(fd)
    \/ \E fd \in FileInputs : upsert_file(fd)
    \/ \E u \in FileIds : delete_file(u)
    \/ commit
    \/ \E r \in {S_r1, S_r2} : delete_project_documents(r)
    \/ \E old \in {S_p1, S_p2}, new \in {S_p1, S_p2} : update_project_name(old, new)
    \/ reset_index_recreate
    \/ reset_index
    \/ clear_index
    \/ reader_reload
    \/ reader_on_commit

Spec == Init /\ [][Next]_vars

\* Searches running while a writer upserts, deletes and commits the versions
\* of one file.
ReaderInputs == {fd \in FileInputs : fd.file_id = Uuid1}

NextReaders ==
    \/ \E fd \in ReaderInputs : upsert_file(fd)
    \/ delete_file(Uuid1)
    \/ commit
    \/ clear_index
    \/ reader_reload
    \/ reader_on_commit
    \/ search(IndexRequests)
    \/ search_collect
    \/ search_facets
    \/ search_return

SpecReaders == Init /\ [][NextReaders]_vars

\* Searches on a committed index that does not change.
InitSearch ==
    /\ \E corpus \in Corpora :
          /\ pending = corpus
          /\ committed = corpus
          /\ reader = corpus
    /\ nextAddr = Cardinality(Pool) + 1
    /\ wpc = "idle"
    /\ spc = "idle"
    /\ sreq = PlainRequest(<<>>)
    /\ searcher = {}
    /\ resp = NoResponse
    /\ hist = InitHist
    /\ segments = Flushed(<<>>, committed)
    /\ rsegments = Flushed(<<>>, committed)
    /\ index_dir = "intact"
    /\ task = NoTask

NextSearch ==
    \/ search(Requests)
    \/ search_collect
    \/ search_facets
    \/ search_return

SpecSearch == InitSearch /\ [][NextSearch]_vars

----------------------------------------------------------------------------
(* Properties of the write path and of the reader (Spec, SpecReaders).      *)

LiveWith(docs, u) == {d \in docs : d.file_id = UuidToString(u)}

\* C1: after any sequence of the write operations, in every committed state
\* each file_id that occurs in the index occurs on exactly one live document.
C1_OneLiveDocumentPerFileId ==
    \A d1, d2 \in committed : d1.file_id = d2.file_id => d1 = d2

\* The texts the upserted versions carry.
VersionTexts == {fd.content : fd \in FileInputs}

\* C2: when only upserts were issued and the last of them is committed and
\* loaded, every upserted file_id has exactly one live document, it carries
\* the stored fields of the last upsert, and a search for a text that no
\* latest version contains has total 0.
C2_UpsertReplaces ==
    (hist.onlyUpserts /\ wpc = "idle" /\ pending = committed /\ reader = committed)
    => /\ \A u \in FileIds :
            IsSome(hist.lastUpsert[u])
            => /\ Cardinality(LiveWith(committed, u)) = 1
               /\ \A d \in LiveWith(committed, u) :
                     Stored(d) = Stored(NewDoc(Unwrap(hist.lastUpsert[u]), 0))
       /\ \A t \in VersionTexts :
            (\A u \in FileIds : IsSome(hist.lastUpsert[u])
                                 => Unwrap(hist.lastUpsert[u]).content # t)
            => SearchTotal(reader, PlainRequest(t)) = 0

\* C3: once commit() has returned and no later commit was made, the reader
\* holds what the writer held at that commit (every upsert and delete staged
\* before it), and a search started then reports the total of that
\* generation.
C3_SearchAfterCommit ==
    /\ hist.fresh => reader = hist.expect
    /\ (spc = "done" /\ IsSome(hist.mustSee))
       => resp.total = SearchTotal(Unwrap(hist.mustSee), sreq)

C3_Witness ==
    /\ spc = "done"
    /\ IsSome(hist.mustSee)
    /\ resp.total > 0

\* C4: a search reads the snapshot it acquired at its start for its whole
\* lifetime: total, results and facets are those of that snapshot whatever
\* is committed and loaded meanwhile, and the snapshot of a search started
\* after commit() returned is the committed generation.
C4_SnapshotForLifetime ==
    /\ spc \notin {"idle", "collect"}
       => /\ resp.total = SearchTotal(hist.snapAtStart, sreq)
          /\ resp.results = SearchResults(hist.snapAtStart, sreq)
    /\ (spc = "done" /\ sreq.include_facets)
       => resp.facets = Some(collect_facets_from_search_results(hist.snapAtStart, sreq))
    /\ (spc # "idle" /\ IsSome(hist.mustSee))
       => hist.snapAtStart = Unwrap(hist.mustSee)

C4_Witness ==
    /\ spc = "done"
    /\ reader # hist.snapAtStart
    /\ resp.total # SearchTotal(reader, sreq)

\* C5: while only upserts and commits run, no reader snapshot shows two
\* documents with a file_id it has shown before, or none; and once commit()
\* has returned with nothing staged since, the one shown is the last
\* upserted version.
C5_NoWindowWithBothVersions ==
    hist.onlyUpserts
    => \A u \in FileIds :
         /\ UuidToString(u) \in hist.visible
            => Cardinality(LiveWith(reader, u)) = 1
         /\ (hist.fresh /\ pending = committed /\ IsSome(hist.lastUpsert[u]))
            => \A d \in LiveWith(reader, u) :
                  Stored(d) = Stored(NewDoc(Unwrap(hist.lastUpsert[u]), 0))

----------------------------------------------------------------------------
(* Properties of search and of its facets (SpecSearch).                     *)

Range(seq) == {seq[k] : k \in DOMAIN seq}

\* The values a filter lists: its comma-separated pieces, each trimmed.
ListedValues(filter) == Range(TrimAll(Split(filter)))

\* The text leaf of the request in its active mode (plain, fuzzy or regex).
MatchesTextLeaf(sq, d) == Matches(BaseQuery(sq).v, d)

\* Every dimension of dims that carries a filter has, on d, exactly one of
\* the listed values.
PassesFilters(sq, d, dims) ==
    \A dim \in dims :
       IsSome(FilterOf(sq, dim)) => d[dim] \in ListedValues(Unwrap(FilterOf(sq, dim)))

\* The size of d lies in [min_size, max_size), for the bounds that are set.
InSizeRange(sq, d) ==
    /\ (IsSome(sq.min_size) => Unwrap(sq.min_size) <= d.size)
    /\ (IsSome(sq.max_size) => d.size < Unwrap(sq.max_size))

Satisfies(sq, d) ==
    /\ MatchesTextLeaf(sq, d)
    /\ PassesFilters(sq, d, Range(Dimensions))
    /\ InSizeRange(sq, d)

\* The search has computed its response.
Computed == spc = "done"

\* C6: the total returned by search is the number of documents of the
\* search's snapshot that satisfy the text leaf and all filters, and the
\* same request with any other limit and offset has the same total.
C6_TotalCountsMatches ==
    Computed
    => /\ resp.total = Cardinality({d \in hist.snapAtStart : Satisfies(sreq, d)})
       /\ \A l \in {0, 1, DefaultLimit} : \A o \in {0, MaxOffset} :
             SearchTotal(hist.snapAtStart, [sreq EXCEPT !.limit = l, !.offset = o])
             = resp.total

C6_Witness ==
    /\ spc = "done"
    /\ sreq.limit = 1
    /\ sreq.offset = 1
    /\ IsSome(sreq.repository_filter)
    /\ resp.total > Len(resp.results)
    /\ resp.total < Cardinality(hist.snapAtStart)

ResultAddresses == {r.doc_address : r \in Range(resp.results)}

FacetField(dim) ==
    CASE dim = "repository" -> "repositories"
      [] dim = "project" -> "projects"
      [] dim = "version" -> "versions"
      [] dim = "extension" -> "extensions"

Cleared(sq, dim) ==
    CASE dim = "repository" -> [sq EXCEPT !.repository_filter = None]
      [] dim = "project" -> [sq EXCEPT !.project_filter = None]
      [] dim = "version" -> [sq EXCEPT !.version_filter = None]
      [] dim = "extension" -> [sq EXCEPT !.extension_filter = None]

\* C8: the facet list reported for a dimension is the one the same request
\* with that dimension's filter cleared gets on the same snapshot.
C8_SelfDimensionIndependence ==
    spc = "done"
    => \A dim \in Range(Dimensions) :
          Unwrap(resp.facets)[FacetField(dim)]
          = TermFacets(hist.snapAtStart, Cleared(sreq, dim), dim)

C8_Witness ==
    /\ spc = "done"
    /\ sreq.repository_filter = Some(S_r1)
    /\ \E b \in Unwrap(resp.facets).repositories : b[1] = S_r2 /\ b[2] > 0
    /\ \A r \in Range(resp.results) : r.repository = S_r1
    /\ resp.results # <<>>

\* C9: for each term dimension D the count reported for a value v is the
\* number of documents of the snapshot with D = v that satisfy the text
\* leaf, the request's size range and the filters of the other three
\* dimensions.
C9_FacetCountsKeepSizeRange ==
    spc = "done"
    => \A dim \in Range(Dimensions) :
          Unwrap(resp.facets)[FacetField(dim)]
          = Buckets({d \in hist.snapAtStart :
                        /\ MatchesTextLeaf(sreq, d)
                        /\ InSizeRange(sreq, d)
                        /\ PassesFilters(sreq, d, Range(Dimensions) \ {dim})}, dim)

RECURSIVE SumOfCounts(_)
SumOfCounts(buckets) ==
    IF buckets = <<>> THEN 0 ELSE Head(buckets)[2] + SumOfCounts(Tail(buckets))

\* C10: the size-bucket counts add up to the number of documents of the
\* snapshot that match the text query in the request's active mode and the
\* four non-size filters.
C10_SizeBucketsSum ==
    spc = "done"
    => SumOfCounts(Unwrap(resp.facets).size_ranges)
       = Cardinality({d \in hist.snapAtStart :
                         /\ MatchesTextLeaf(sreq, d)
                         /\ PassesFilters(sreq, d, Range(Dimensions))})

----------------------------------------------------------------------------
(* Properties of the size buckets.                                          *)

RECURSIVE LabelsOf(_)
LabelsOf(buckets) ==
    IF buckets = <<>> THEN <<>> ELSE <<Head(buckets)[1]>> \o LabelsOf(Tail(buckets))

\* C11: whenever facets are requested, size_ranges has exactly the six
\* entries "< 1 KB", "1 KB - 10 KB", "10 KB - 100 KB", "100 KB - 1 MB",
\* "1 MB - 10 MB", "> 10 MB", in that order, whatever their counts.
C11_SixSizeBuckets ==
    (spc = "done" /\ sreq.include_facets)
    => LabelsOf(Unwrap(resp.facets).size_ranges)
       = <<"< 1 KB", "1 KB - 10 KB", "10 KB - 100 KB", "100 KB - 1 MB",
           "1 MB - 10 MB", "> 10 MB">>

----------------------------------------------------------------------------
(* Searches on documents whose sizes sit on and around the bucket bounds.   *)

SizeDoc(addr, digit, content, repository, size) ==
    PoolDoc(addr, <<<<"c", "0">>, <<digit>>>>, content, repository, S_p1, S_rs, size)

SizePool ==
    {SizeDoc(1, "1", S_hi, S_r1, 0),
     SizeDoc(2, "2", S_hi, S_r1, 1023),
     SizeDoc(3, "3", S_hi, S_r2, 1024),
     SizeDoc(4, "4", S_hi, S_r1, 10 * 1024),
     SizeDoc(5, "5", S_yo, S_r1, 100 * 1024),
     SizeDoc(6, "6", S_hi, S_r1, 1024 * 1024)}

SizeRequests ==
    [query : {S_hi, <<"*">>},
     repository_filter : {None, Some(S_r1), Some(<<",", " ">>)},
     project_filter : {None},
     version_filter : {None},
     extension_filter : {None},
     min_size : {None, Some(1024)},
     max_size : {None, Some(10 * 1024)},
     limit : {DefaultLimit},
     offset : {0},
     include_facets : {TRUE},
     fuzzy_search : {FALSE},
     regex_search : {FALSE}]

InitSizes ==
    /\ \E corpus \in SUBSET SizePool :
          /\ pending = corpus
          /\ committed = corpus
          /\ reader = corpus
    /\ nextAddr = Cardinality(SizePool) + 1
    /\ wpc = "idle"
    /\ spc = "idle"
    /\ sreq = PlainRequest(<<>>)
    /\ searcher = {}
    /\ resp = NoResponse
    /\ hist = InitHist
    /\ segments = Flushed(<<>>, committed)
    /\ rsegments = Flushed(<<>>, committed)
    /\ index_dir = "intact"
    /\ task = NoTask

NextSizes ==
    \/ search(SizeRequests)
    \/ search_collect
    \/ search_facets
    \/ search_return

SpecSizes == InitSizes /\ [][NextSizes]_vars

\* C12: a request that differs from the one searched only in min_size and
\* max_size gets, on the same snapshot, the same size_ranges counts.
C12_SizeBucketsIgnoreSizeFilter ==
    (spc = "done" /\ sreq.include_facets)
    => \A mn \in {None, Some(1024)} : \A mx \in {None, Some(10 * 1024)} :
          collect_facets_from_search_results(
              hist.snapAtStart,
              [sreq EXCEPT !.min_size = mn, !.max_size = mx]).size_ranges
          = Unwrap(resp.facets).size_ranges

C12_Witness ==
    /\ spc = "done"
    /\ sreq.min_size = Some(1024)
    /\ sreq.max_size = Some(10 * 1024)
    /\ resp.total > 0
    /\ Unwrap(resp.facets).size_ranges[1][2] > 0
    /\ SumOfCounts(Unwrap(resp.facets).size_ranges) > resp.total

\* The bucket a size belongs to: lower bounds inclusive, upper exclusive.
BucketIndex(size) ==
    IF size < 1024 THEN 1
    ELSE IF size < 10240 THEN 2
    ELSE IF size < 102400 THEN 3
    ELSE IF size < 1048576 THEN 4
    ELSE 5

\* The documents the size facets count: the text query of the facets and the
\* four term filters.
SizeFacetBase(snapshot, sq) ==
    {d \in snapshot : Matches(build_query_with_filters(sq, AllDimensions), d)}

\* C13: the size buckets are disjoint and cover every size: each document of
\* the size-facet base query is counted in exactly the one bucket whose
\* lower bound it reaches and whose upper bound it stays below, so a document
\* of size 1024, 10240, 102400 or 1048576 is counted in the bucket that
\* starts there.
C13_BucketsPartitionSizes ==
    (spc = "done" /\ sreq.include_facets)
    => /\ \A k \in DOMAIN Unwrap(resp.facets).size_ranges :
            Unwrap(resp.facets).size_ranges[k][2]
            = Cardinality({d \in SizeFacetBase(hist.snapAtStart, sreq) :
                              BucketIndex(d.size) = k})
       /\ SumOfCounts(Unwrap(resp.facets).size_ranges)
          = Cardinality(SizeFacetBase(hist.snapAtStart, sreq))

C13_Witness ==
    /\ spc = "done"
    /\ {d.size : d \in SizeFacetBase(hist.snapAtStart, sreq)}
       = {1024, 10240, 1048576}
    /\ Unwrap(resp.facets).size_ranges[1][2] = 0
    /\ Unwrap(resp.facets).size_ranges[2][2] = 1
    /\ Unwrap(resp.facets).size_ranges[3][2] = 1
    /\ Unwrap(resp.facets).size_ranges[4][2] = 0
    /\ Unwrap(resp.facets).size_ranges[5][2] = 1

----------------------------------------------------------------------------
(* Properties of one search's snapshot, paging, modes and filters.          *)

FacetsComputed ==
    {k \in 1..Len(FacetOrder) : \E j \in (k + 1)..Len(FacetSteps) : spc = FacetSteps[j]}

SumOfBuckets(buckets) == SumOfCounts(SetToSeq(buckets))

\* C14: every facet dimension a search has computed so far is the one of the
\* snapshot acquired at its start, as are its total and results, whatever is
\* committed and loaded between two facet computations; the five dimensions
\* of a finished search without filters therefore all add up to its total.
C14_FacetsOnOneSnapshot ==
    sreq.include_facets
    => /\ \A k \in FacetsComputed :
            /\ Unwrap(resp.facets)[FacetOrder[k]]
               = FacetValue(hist.snapAtStart, sreq, FacetOrder[k])
            /\ resp.total = SearchTotal(hist.snapAtStart, sreq)
            /\ resp.results = SearchResults(hist.snapAtStart, sreq)
       /\ (spc = "done" /\ sreq = [PlainRequest(<<"*">>) EXCEPT !.include_facets = TRUE])
          => /\ \A field \in {"repositories", "projects", "versions", "extensions"} :
                  SumOfBuckets(Unwrap(resp.facets)[field]) = resp.total
             /\ SumOfCounts(Unwrap(resp.facets).size_ranges) = resp.total

C14_Witness ==
    /\ spc = "done"
    /\ sreq.include_facets
    /\ hist.movedAt \in {"project_facets", "version_facets", "extension_facets",
                         "size_range_facets"}
    /\ resp.total > 0
    /\ resp.total # SearchTotal(reader, sreq)
    /\ Unwrap(resp.facets).size_ranges # SizeRangeFacets(reader, sreq)

Min(a, b) == IF a < b THEN a ELSE b

Max(a, b) == IF a < b THEN b ELSE a

\* C15: for every limit and offset a search returns
\* min(limit, max(0, total - offset)) results and the number of matching
\* documents as its total; with limit 0 the results are empty and the facets,
\* when requested, are those of the request.
C15_PageLength ==
    Computed
    => /\ Len(resp.results) = Min(sreq.limit, Max(0, resp.total - sreq.offset))
       /\ resp.total = Cardinality({d \in hist.snapAtStart : Satisfies(sreq, d)})
       /\ (sreq.limit = 0 /\ sreq.include_facets)
          => /\ resp.results = <<>>
             /\ resp.facets
                = Some(collect_facets_from_search_results(hist.snapAtStart, sreq))

C15_Witness ==
    /\ spc = "done"
    /\ sreq.limit = DefaultLimit
    /\ resp.total > 0
    /\ sreq.offset >= resp.total
    /\ resp.results = <<>>

FuzzyFlipped(sq) == [sq EXCEPT !.fuzzy_search = ~sq.fuzzy_search]

Failed == spc = "idle" /\ resp.status = "err"

\* C16: when regex_search is set the outcome of a search is that of the same
\* request with the other value of fuzzy_search: the same error, or the same
\* total, results and facets.
C16_RegexIgnoresFuzzy ==
    sreq.regex_search
    => /\ Failed => ~BaseQuery(FuzzyFlipped(sreq)).ok
       /\ spc = "done"
          => /\ BaseQuery(FuzzyFlipped(sreq)).ok
             /\ resp.total = SearchTotal(hist.snapAtStart, FuzzyFlipped(sreq))
             /\ resp.results = SearchResults(hist.snapAtStart, FuzzyFlipped(sreq))
             /\ resp.facets
                = Some(collect_facets_from_search_results(hist.snapAtStart,
                                                          FuzzyFlipped(sreq)))

C16_Witness ==
    /\ spc = "done"
    /\ sreq.regex_search
    /\ sreq.fuzzy_search
    /\ resp.total > 0
    /\ resp.total # SearchTotal(hist.snapAtStart, [sreq EXCEPT !.regex_search = FALSE])
    /\ resp.total
       # SearchTotal(hist.snapAtStart,
                     [sreq EXCEPT !.regex_search = FALSE, !.fuzzy_search = FALSE])

\* The non-empty trimmed pieces of a filter.
NonEmptyValues(filter) == ListedValues(filter) \ {<<>>}

\* Every dimension whose filter lists a non-empty piece has, on d, one of the
\* non-empty pieces.
PassesNonEmptyFilters(sq, d) ==
    \A dim \in Range(Dimensions) :
       (IsSome(FilterOf(sq, dim)) /\ NonEmptyValues(Unwrap(FilterOf(sq, dim))) # {})
       => d[dim] \in NonEmptyValues(Unwrap(FilterOf(sq, dim)))

\* C17: search reads each filter as the set of its non-empty trimmed pieces:
\* the total counts the documents that match the text leaf, the size range
\* and, for every filter with a non-empty piece, one of its non-empty pieces
\* (a filter of empty pieces constrains nothing, an extra empty piece admits
\* nothing), and the size buckets count with the same sets.
C17_EmptyPiecesDropped ==
    (spc = "done" /\ sreq.include_facets)
    => /\ resp.total
          = Cardinality({d \in hist.snapAtStart :
                            /\ MatchesTextLeaf(sreq, d)
                            /\ InSizeRange(sreq, d)
                            /\ PassesNonEmptyFilters(sreq, d)})
       /\ SumOfCounts(Unwrap(resp.facets).size_ranges)
          = Cardinality({d \in hist.snapAtStart :
                            /\ Matches(FacetTextQuery(sreq), d)
                            /\ PassesNonEmptyFilters(sreq, d)})

----------------------------------------------------------------------------
(* The regex validator, api/regex_validator.rs.                            *)

MAX_REGEX_LENGTH == 500

MAX_NESTING_DEPTH == 3

DANGEROUS_PATTERNS ==
    << <<"(", "+", ")", "+">>,
       <<"(", "*", ")", "*">>,
       <<"(", "{", ")", "?", "{">>,
       <<"(", "|", ")", "*">>,
       <<"(", "|", ")", "+">> >>

\* str::contains.
Contains(s, sub) ==
    \E i \in 1..(Len(s) - Len(sub) + 1) : SubSeq(s, i, i + Len(sub) - 1) = sub

\* The positions from i on that hold a parenthesis; at every other position
\* the loop of validate_nesting_and_quantifiers does nothing.
ParensFrom(chars, i) == {j \in i..Len(chars) : chars[j] \in {"(", ")"}}

First(S) == CHOOSE j \in S : \A k \in S : j <= k

\* The loop of validate_nesting_and_quantifiers from character i on; st holds
\* depth, max_depth and depths_with_quantifiers.
RECURSIVE ScanGroups(_, _, _)
ScanGroups(chars, i, st) ==
    IF ParensFrom(chars, i) = {} THEN Ok(st)
    ELSE IF chars[First(ParensFrom(chars, i))] = "("
    THEN ScanGroups(chars, First(ParensFrom(chars, i)) + 1,
                    [st EXCEPT !.depth = @ + 1,
                               !.max_depth = Max(@, st.depth + 1)])
    ELSE IF st.depth = 0
    THEN Err("Unmatched closing parenthesis in regex pattern")
    ELSE ScanGroups(chars, First(ParensFrom(chars, i)) + 1,
             [st EXCEPT
                !.depths_with_quantifiers =
                    IF /\ First(ParensFrom(chars, i)) + 1 <= Len(chars)
                       /\ chars[First(ParensFrom(chars, i)) + 1] \in {"+", "*", "{"}
                    THEN Append(@, st.depth) ELSE @,
                !.depth = @ - 1])

\* A nesting check that allows one level less.
NestingOneLevelLess(pattern) ==
    IF ~Contains(pattern, <<"(">>) /\ ~Contains(pattern, <<")">>) THEN Ok(<<>>)
    ELSE LET scan == ScanGroups(pattern, 1,
                         [depth |-> 0, max_depth |-> 0,
                          depths_with_quantifiers |-> <<>>])
         IN  IF ~scan.ok THEN scan
             ELSE IF scan.v.depth > 0
             THEN Err("Unmatched opening parenthesis in regex pattern")
             ELSE IF scan.v.max_depth >= MAX_NESTING_DEPTH
             THEN Err("Pattern has too many nested groups")
             ELSE IF \E k \in 1..Len(scan.v.depths_with_quantifiers) :
                        /\ scan.v.depths_with_quantifiers[k] > 2
                        /\ scan.v.max_depth > 2
             THEN Err("Pattern has quantifier on deeply nested group")
             ELSE Ok(<<>>)

validate_nesting_and_quantifiers(pattern) ==
    IF ~Contains(pattern, <<"(">>) /\ ~Contains(pattern, <<")">>) THEN Ok(<<>>)
    ELSE LET scan == ScanGroups(pattern, 1,
                         [depth |-> 0, max_depth |-> 0,
                          depths_with_quantifiers |-> <<>>])
         IN  IF ~scan.ok THEN scan
             ELSE IF scan.v.depth > 0
             THEN Err("Unmatched opening parenthesis in regex pattern")
             ELSE IF scan.v.max_depth > MAX_NESTING_DEPTH
             THEN Err("Pattern has too many nested groups")
             ELSE IF \E k \in 1..Len(scan.v.depths_with_quantifiers) :
                        /\ scan.v.depths_with_quantifiers[k] > 2
                        /\ scan.v.max_depth > 2
             THEN Err("Pattern has quantifier on deeply nested group")
             ELSE Ok(<<>>)

\* The patterns of the model are ASCII, so that the byte length pattern.len()
\* is the number of characters.
validate_regex_pattern(pattern) ==
    IF Len(pattern) > MAX_REGEX_LENGTH
    THEN Err("Regex pattern exceeds max length")
    ELSE IF pattern = <<>>
    THEN Err("Regex pattern cannot be empty")
    ELSE IF \E k \in 1..Len(DANGEROUS_PATTERNS) : Contains(pattern, DANGEROUS_PATTERNS[k])
    THEN Err("Pattern detected as potentially dangerous (ReDoS risk)")
    ELSE validate_nesting_and_quantifiers(pattern)

\* The patterns the validator is applied to: every string of parentheses and
\* '+' up to MaxGroupLen characters, every string over the characters the
\* validator looks at up to MaxPatternLen characters, the blocklisted strings
\* alone and inside a longer pattern, the patterns of the unit tests, and
\* patterns around the length limit.
MaxGroupLen == 8

MaxPatternLen == 4

StringsUpTo(alphabet, n) == UNION {[1..k -> alphabet] : k \in 0..n}

Repeat(c, n) == [i \in 1..n |-> c]

S_test == <<"t", "e", "s", "t">>

Patterns ==
    StringsUpTo({"(", ")", "+"}, MaxGroupLen)
    \cup StringsUpTo({"(", ")", "+", "*", "{", "|", "?", "a"}, MaxPatternLen)
    \cup UNION {{DANGEROUS_PATTERNS[k],
                 <<"a">> \o DANGEROUS_PATTERNS[k],
                 DANGEROUS_PATTERNS[k] \o <<"a">>,
                 <<"(">> \o DANGEROUS_PATTERNS[k] \o <<")">>}
                : k \in 1..Len(DANGEROUS_PATTERNS)}
    \cup {<<"(", "(", "(", "(">> \o S_test \o <<")", ")", ")", ")">>,
          <<"(", "(", "(">> \o S_test \o <<")", ")", ")">>,
          <<"(", "(", "(">> \o S_test \o <<")", "?", ")", ")">>,
          <<"(", "(", "(">> \o S_test \o <<")", "{", "2", "}", ")", ")">>,
          S_test \o <<")">>,
          <<"(">> \o S_test,
          <<"^", "(", "t", "e", "s", "t", "|", "h", "i", ")", "$">>,
          <<".", "*", "\\", ".", "r", "s", "$">>}
    \cup {Repeat("a", n) : n \in (MAX_REGEX_LENGTH - 1)..(MAX_REGEX_LENGTH + 1)}
    \cup {<<"(", "(", "(">> \o Repeat("a", n) \o <<")", ")", ")">>
            : n \in (MAX_REGEX_LENGTH - 7)..(MAX_REGEX_LENGTH - 5)}

InitValidator ==
    /\ pending = {}
    /\ committed = {}
    /\ reader = {}
    /\ nextAddr = 1
    /\ wpc = "idle"
    /\ spc = "idle"
    /\ \E pattern \in Patterns :
          sreq = [PlainRequest(pattern) EXCEPT !.regex_search = TRUE]
    /\ searcher = {}
    /\ resp = NoResponse
    /\ hist = InitHist
    /\ segments = <<>>
    /\ rsegments = <<>>
    /\ index_dir = "intact"
    /\ task = NoTask

\* validate_regex_pattern is applied to the pattern; resp holds its verdict.
validate ==
    /\ resp.status = "none"
    /\ resp' = [NoResponse EXCEPT
                  !.status = IF validate_regex_pattern(sreq.query).ok
                             THEN "valid" ELSE "invalid",
                  !.error = IF validate_regex_pattern(sreq.query).ok
                            THEN "" ELSE validate_regex_pattern(sreq.query).v]
    /\ UNCHANGED <<pending, committed, reader, nextAddr, wpc, spc,
                   sreq, searcher, hist, segments, rsegments, TaskVars>>

NextValidator == validate

SpecValidator == InitValidator /\ [][NextValidator]_vars

\* The nesting depth after the first i characters of p.
DepthAfter(p, i) ==
    Occurrences(SubSeq(p, 1, i), "(") - Occurrences(SubSeq(p, 1, i), ")")

Balanced(p) ==
    /\ \A i \in 1..Len(p) : DepthAfter(p, i) >= 0
    /\ DepthAfter(p, Len(p)) = 0

DeeperThan(p, n) == \E i \in 1..Len(p) : DepthAfter(p, i) > n

\* A group closed at a depth above 2 and directly followed by a quantifier.
QuantifiedDeepGroup(p) ==
    \E i \in 1..(Len(p) - 1) :
       /\ p[i] = ")"
       /\ DepthAfter(p, i - 1) > 2
       /\ p[i + 1] \in {"+", "*", "{"}

Blocklisted(p) ==
    \E d \in {<<"(", "+", ")", "+">>, <<"(", "*", ")", "*">>,
              <<"(", "{", ")", "?", "{">>, <<"(", "|", ")", "*">>,
              <<"(", "|", ")", "+">>} : Contains(p, d)

ShouldReject(p) ==
    \/ p = <<>>
    \/ Len(p) > 500
    \/ Blocklisted(p)
    \/ ~Balanced(p)
    \/ DeeperThan(p, 3)
    \/ QuantifiedDeepGroup(p)

\* C18: the validator rejects a pattern exactly when it is empty, longer than
\* 500 characters, contains a blocklisted string, has unbalanced parentheses,
\* nests groups deeper than 3, or closes a group at a depth above 2 directly
\* before '+', '*' or '{'; a pattern of exactly 500 characters or of depth
\* exactly 3 that breaks no other rule is accepted.
C18_ValidatorRejectsExactly ==
    resp.status \in {"valid", "invalid"}
    => (resp.status = "invalid" <=> ShouldReject(sreq.query))

C18_Witness ==
    /\ resp.status = "valid"
    /\ Len(sreq.query) = 500
    /\ DeeperThan(sreq.query, 2)
    /\ ~DeeperThan(sreq.query, 3)

----------------------------------------------------------------------------
(* Searches whose text does not parse, does not compile, or is refused by  *)
(* the regex validator, while files are indexed and committed.             *)

RegexRequest(pattern) == [PlainRequest(pattern) EXCEPT !.regex_search = TRUE]

ErrorRequests ==
    {PlainRequest(S_hi),
     [PlainRequest(S_hi) EXCEPT !.include_facets = TRUE],
     PlainRequest(<<"(">>),
     [PlainRequest(<<"(">>) EXCEPT !.fuzzy_search = TRUE],
     RegexRequest(S_hi),
     RegexRequest(<<"*">>),
     RegexRequest(<<"(">>),
     RegexRequest(<<"(", "+", ")", "+">>),
     RegexRequest(<<"(", "(", "(", "(">> \o S_hi \o <<")", ")", ")", ")">>)}

NextErrors ==
    \/ \E fd \in ReaderInputs : upsert_file(fd)
    \/ commit
    \/ reader_reload
    \/ search(ErrorRequests)
    \/ search_collect
    \/ search_facets
    \/ search_return

SpecErrors == Init /\ [][NextErrors]_vars

\* C19: a search in regex mode whose pattern the validator rejects fails with
\* the validator's reason and runs no query.
C19_RejectedPatternsNotSearched ==
    (sreq.regex_search /\ resp.status # "none"
        /\ ~validate_regex_pattern(sreq.query).ok)
    => /\ Failed
       /\ resp.error = validate_regex_pattern(sreq.query).v

\* The text of the request is not a query: in the plain and fuzzy modes its
\* parentheses do not balance, in regex mode the engine does not compile it.
NotAQuery(sq) ==
    IF sq.regex_search
    THEN \/ ~Balanced(sq.query)
         \/ \E i \in 1..Len(sq.query) :
               /\ sq.query[i] \in {"*", "+", "?"}
               /\ (i = 1 \/ sq.query[i - 1] \in {"(", "|"})
    ELSE ~Balanced(sq.query)

\* C20: a search whose text is not a query ends with an error, never with a
\* result, and the step that fails leaves the staged and the committed
\* documents as they were.
C20_FailingSearchIsAnError ==
    /\ [](resp.status # "none" /\ NotAQuery(sreq) => Failed /\ resp.error # "")
    /\ [][resp'.status = "err" /\ resp.status # "err"
            => pending' = pending /\ committed' = committed]_vars

C20_Witness ==
    /\ Failed
    /\ ~sreq.regex_search
    /\ pending # committed
    /\ committed # {}

----------------------------------------------------------------------------
(* Write operations: visibility, locking, failures, merges, lookups.       *)

\* C21: once delete_project_documents or clear_index has returned, and until
\* the next commit, the documents it deletes are still what searches observe;
\* hist.undeleted holds the documents searches saw that the call deletes.
C21_DeletionWaitsForCommit ==
    wpc = "idle" => hist.undeleted \subseteq reader

\* The stored fields a document has after the project old is renamed to new.
Renamed(d, old, new) ==
    IF d.project = old THEN [Stored(d) EXCEPT !.project = new] ELSE Stored(d)

\* C22: when update_project_name(old, new) has committed, the live documents
\* are, one for one, the documents the index held before the call with old
\* replaced by new in the project field, and the count returned is the number
\* of documents that had the project old; hist.rename holds the call.
C22_RenameKeepsEveryDocument ==
    (wpc = "update_project_name" /\ IsSome(hist.rename))
    => LET r == Unwrap(hist.rename)
       IN  /\ \A v \in {Renamed(d, r.old, r.new) : d \in r.before}
                       \cup {Stored(d) : d \in committed} :
                 Cardinality({d \in committed : Stored(d) = v})
                 = Cardinality({d \in r.before : Renamed(d, r.old, r.new) = v})
           /\ r.count = Cardinality({d \in r.before : d.project = r.old})

\* C23: a step that changes what the writer holds, what is committed or the
\* index directory is taken by an operation that holds the writer lock, so it
\* is never taken while another operation is inside its writer section.
C23_MutationsHoldTheLock ==
    [][(pending' # pending \/ committed' # committed \/ index_dir' # index_dir)
          => wpc = "idle"]_vars

\* Write operations running next to a task that resets the index or applies
\* the merge policy and may be dropped while it waits for the writer lock.
NextTasks ==
    \/ \E fd \in ReaderInputs : upsert_file(fd)
    \/ commit
    \/ update_project_name(S_p1, S_p2)
    \/ clear_index
    \/ reader_reload
    \/ reader_on_commit
    \/ reset_index_recreate
    \/ reset_index
    \/ merge_measure
    \/ merge_commit
    \/ merge_reload
    \/ merge_finish
    \/ merge_return
    \/ task_dropped

SpecTasks == Init /\ [][NextTasks]_vars

\* C24: once an operation that commits the writer has returned, and until the
\* next commit, the reader serves what is committed, so that a search started
\* then observes it; hist.owed holds the committed documents at the return.
C24_CommittedStateIsServed ==
    IsSome(hist.owed) => reader = Unwrap(hist.owed)

\* Write operations on a service one of whose commits may fail.
NextFailures ==
    \/ \E fd \in ReaderInputs : upsert_file(fd)
    \/ delete_file(Uuid1)
    \/ commit
    \/ \E killed \in BOOLEAN : commit_failed(killed)
    \/ update_project_name(S_p1, S_p2)
    \/ clear_index
    \/ reader_reload
    \/ reader_on_commit

SpecFailures == Init /\ [][NextFailures]_vars

\* C25: after a commit has failed no step stages or publishes anything.
C25_NoWriteAfterFailedCommit ==
    [][hist.poisoned => pending' = pending /\ committed' = committed]_vars

\* C26: the report of apply_merge_policy has segments_after <= segments_before
\* and as many documents visible to searches after the merge as before it.
C26_MergeKeepsDocuments ==
    (task.op = "apply_merge_policy" /\ task.pc = "done")
    => /\ task.segments_after <= task.segments_before
       /\ task.documents_after = task.documents_before

\* Tasks that are dropped where they wait: a write task at the writer lock, a
\* search at its await (every search of this specification ends that way).
DropInputs == {fd \in ReaderInputs : fd.content = S_hi}

NextDrops ==
    \/ \E fd \in DropInputs : upsert_file(fd)
    \/ commit
    \/ update_project_name(S_p1, S_p2)
    \/ reader_reload
    \/ reset_index_recreate
    \/ reset_index
    \/ merge_measure
    \/ merge_commit
    \/ merge_reload
    \/ merge_finish
    \/ merge_return
    \/ task_dropped
    \/ search({[PlainRequest(S_hi) EXCEPT !.include_facets = TRUE]})
    \/ search_collect
    \/ search_dropped

SpecDrops == Init /\ [][NextDrops]_vars

Addresses(docs) == {d.addr : d \in docs}

\* A snapshot that holds a document a rename added holds none of the
\* documents that rename removed.
WholeRenames(docs) ==
    \A r \in hist.renames :
       r.added \cap Addresses(docs) # {} => r.removed \cap Addresses(docs) = {}

-----------------------------------------------------------------------------
(* Lookups of one document: get_file_by_doc_address and get_file_by_id.    *)

\* A u32 is kept as two 16-bit limbs, value = hi * Limb + lo, so that the
\* whole range of the type is there.
Limb == 65536

U32(n) == [hi |-> n \div Limb, lo |-> n % Limb]

U32_MAX == [hi |-> Limb - 1, lo |-> Limb - 1]

Digits == <<"0", "1", "2", "3", "4", "5", "6", "7", "8", "9">>

IsDigit(c) == \E k \in 1..10 : Digits[k] = c

DigitValue(c) == (CHOOSE k \in 1..10 : Digits[k] = c) - 1

\* Display for u32, as format!("{}", n) writes it: decimal, no sign, no
\* leading zero.
RECURSIVE FormatU32(_)
FormatU32(n) ==
    IF n.hi = 0 /\ n.lo < 10 THEN <<Digits[n.lo + 1]>>
    ELSE LET low == (n.hi % 10) * Limb + n.lo
         IN  FormatU32([hi |-> n.hi \div 10, lo |-> low \div 10])
                 \o <<Digits[(low % 10) + 1]>>

\* The digits of str::parse::<u32>(), most significant first: a character
\* that is no digit and a value above u32::MAX are errors.
RECURSIVE ParseDigits(_, _, _)
ParseDigits(s, i, n) ==
    IF i > Len(s) THEN Ok(n)
    ELSE IF ~IsDigit(s[i]) THEN Err("invalid digit found in string")
    ELSE LET low == n.lo * 10 + DigitValue(s[i])
             high == n.hi * 10 + (low \div Limb)
         IN  IF high >= Limb THEN Err("number too large to fit in target type")
             ELSE ParseDigits(s, i + 1, [hi |-> high, lo |-> low % Limb])

\* str::parse::<u32>(): an optional "+" and then at least one digit.
ParseU32(s) ==
    LET digits == IF s # <<>> /\ s[1] = "+" THEN Tail(s) ELSE s
    IN  IF s = <<>> THEN Err("cannot parse integer from empty string")
        ELSE IF digits = <<>> THEN Err("invalid digit found in string")
        ELSE ParseDigits(digits, 1, U32(0))

\* str::split(':'): the pieces between the colons.
RECURSIVE SplitColonFrom(_, _, _)
SplitColonFrom(s, i, cur) ==
    IF i > Len(s) THEN <<cur>>
    ELSE IF s[i] = ":" THEN <<cur>> \o SplitColonFrom(s, i + 1, <<>>)
    ELSE SplitColonFrom(s, i + 1, Append(cur, s[i]))

\* format!("{}:{}", doc_address.segment_ord, doc_address.doc_id)
FormatDocAddress(doc_address) ==
    FormatU32(doc_address.segment_ord) \o <<":">> \o FormatU32(doc_address.doc_id)

\* The head of get_file_by_doc_address: the locator string to a DocAddress.
ParseDocAddress(doc_address_str) ==
    LET parts == SplitColonFrom(doc_address_str, 1, <<>>)
    IN  IF Len(parts) # 2 THEN Err("Invalid doc_address format")
        ELSE LET segment_ord == ParseU32(parts[1])
                 doc_id == ParseU32(parts[2])
             IN  IF ~segment_ord.ok THEN Err("Invalid segment_ord")
                 ELSE IF ~doc_id.ok THEN Err("Invalid doc_id")
                 ELSE Ok([segment_ord |-> segment_ord.v, doc_id |-> doc_id.v])

\* A u32 below the length n of a vector.
Below(index, n) == index.hi = 0 /\ index.lo < n

\* The panic of an index past the end of a vector.
Panic == [ok |-> FALSE, v |-> "panic: index out of bounds"]

\* searcher.doc(doc_address) on the segments segs of the searcher: the store
\* readers are indexed by the segment ordinal, and an ordinal past the last
\* one panics; the store of a segment gives back every document it holds,
\* deleted or not, and fails for a doc id it does not hold.
SearcherDoc(segs, doc_address) ==
    IF ~Below(doc_address.segment_ord, Len(segs)) THEN Panic
    ELSE LET segment == segs[doc_address.segment_ord.lo + 1]
         IN  IF Below(doc_address.doc_id, Len(segment))
             THEN Ok(segment[doc_address.doc_id.lo + 1])
             ELSE Err("doc not found in store")

\* The DocAddress of a document of the searcher.
Locate(segs, doc) ==
    LET at == CHOOSE at \in {<<s, k>> : s \in 1..Len(segs),
                                       k \in 1..MaxAdds + Cardinality(Pool)} :
                 at[2] <= Len(segs[at[1]]) /\ segs[at[1]][at[2]] = doc
    IN  [segment_ord |-> U32(at[1] - 1), doc_id |-> U32(at[2] - 1)]

\* The SearchResult a lookup builds from the document it retrieved.
LookupResultOf(doc, doc_address_str) ==
    [SearchResultOf(doc) EXCEPT !.doc_address = doc_address_str]

\* get_file_by_doc_address: sreq keeps the locator of the call, resp what the
\* call gives back: "found" is Ok(Some(result)), "absent" is Ok(None), "err"
\* is Err(error), "panic" is the panic of the task.
get_file_by_doc_address(doc_address_str) ==
    /\ spc = "idle"
    /\ LET parsed == ParseDocAddress(doc_address_str)
           retrieved == SearcherDoc(rsegments, parsed.v)
       IN  /\ resp' =
                 IF ~parsed.ok
                 THEN [NoResponse EXCEPT !.status = "err", !.error = parsed.v]
                 ELSE IF retrieved.ok
                 THEN [NoResponse EXCEPT
                         !.status = "found", !.total = 1,
                         !.results = <<LookupResultOf(retrieved.v, doc_address_str)>>]
                 ELSE IF retrieved = Panic
                 THEN [NoResponse EXCEPT !.status = "panic"]
                 ELSE [NoResponse EXCEPT !.status = "absent"]
           /\ hist' = [hist EXCEPT
                         !.decoded = IF parsed.ok THEN Some(parsed.v) ELSE None]
    /\ spc' = "get_file_by_doc_address"
    /\ sreq' = PlainRequest(doc_address_str)
    /\ searcher' = reader
    /\ UNCHANGED <<pending, committed, reader, nextAddr, wpc, segments, rsegments,
                   TaskVars>>

\* get_file_by_id: the first document of the searcher that matches the term
\* of the id.
get_file_by_id(file_id) ==
    /\ spc = "idle"
    /\ LET top_docs == TopDocs(reader, FileIdTerm(file_id), 1, 0)
       IN  resp' =
              IF top_docs # <<>>
              THEN [NoResponse EXCEPT
                      !.status = "found", !.total = 1,
                      !.results =
                          <<LookupResultOf(top_docs[1],
                                FormatDocAddress(Locate(rsegments, top_docs[1])))>>]
              ELSE [NoResponse EXCEPT !.status = "absent"]
    /\ spc' = "get_file_by_id"
    /\ sreq' = PlainRequest(UuidToString(file_id))
    /\ searcher' = reader
    /\ UNCHANGED <<pending, committed, reader, nextAddr, wpc, hist, segments,
                   rsegments, TaskVars>>

\* The lookup returns to its caller.
lookup_return ==
    /\ spc \in {"get_file_by_doc_address", "get_file_by_id"}
    /\ spc' = "idle"
    /\ sreq' = PlainRequest(<<>>)
    /\ searcher' = {}
    /\ resp' = NoResponse
    /\ hist' = [hist EXCEPT !.decoded = None]
    /\ UNCHANGED <<pending, committed, reader, nextAddr, wpc, segments, rsegments,
                   TaskVars>>

\* Lookups on an index that two files of two repositories are written to.
LookupInputs ==
    {fd \in [file_id : FileIds, file_name : {S_ars}, file_path : {S_ars},
             content : {S_hi}, repository : {S_r1, S_r2}, project : {S_p1},
             version : {S_main}, extension : {S_rs}, size : {512}] :
        fd.repository = S_r1 <=> fd.file_id = Uuid1}

LookupLocators ==
    {FormatDocAddress([segment_ord |-> U32(s), doc_id |-> U32(d)]) :
        s \in 0..1, d \in 0..2}

NextLookup ==
    \/ \E fd \in LookupInputs : upsert_file(fd)
    \/ commit
    \/ reader_reload
    \/ delete_project_documents(S_r1)
    \/ \E doc_address_str \in LookupLocators : get_file_by_doc_address(doc_address_str)
    \/ \E file_id \in FileIds : get_file_by_id(file_id)
    \/ lookup_return

SpecLookup == Init /\ [][NextLookup]_vars

\* The document a DocAddress points to in the segments of the reader is live:
\* the segment is there, it holds the doc id, and the document is not deleted.
LiveAt(doc_address) ==
    /\ Below(doc_address.segment_ord, Len(rsegments))
    /\ Below(doc_address.doc_id, Len(rsegments[doc_address.segment_ord.lo + 1]))
    /\ rsegments[doc_address.segment_ord.lo + 1][doc_address.doc_id.lo + 1] \in reader

\* C28: get_file_by_doc_address with a well-formed locator whose segment is
\* not in the current snapshot, or whose document is deleted, returns
\* Ok(None): it never returns a document that is not live and it never fails.
C28_LookupByAddressServesLiveDocuments ==
    [][(spc = "idle" /\ spc' = "get_file_by_doc_address" /\ IsSome(hist'.decoded))
          => /\ resp'.status \in {"found", "absent"}
             /\ ~LiveAt(Unwrap(hist'.decoded)) => resp'.status = "absent"]_vars

\* The fields of a SearchResult that are stored fields of the document.
StoredResultFields ==
    {"file_id", "file_name", "file_path", "repository", "project", "version",
     "extension"}

\* The committed versions of the file whose id is written id_str.
VersionsOf(id_str) == {d \in committed : d.file_id = id_str}

\* C29: after upsert_file of a file id and a commit, get_file_by_id of that id
\* returns a result with that file id and the stored fields of the latest
\* committed version; for an id with no committed document it returns absent.
C29_LookupByIdFindsTheCommittedVersion ==
    [][(spc = "idle" /\ spc' = "get_file_by_id" /\ wpc = "idle")
          => IF VersionsOf(sreq'.query) = {} THEN resp'.status = "absent"
             ELSE /\ resp'.status = "found"
                  /\ \E latest \in VersionsOf(sreq'.query) :
                        /\ \A d \in VersionsOf(sreq'.query) : d.addr <= latest.addr
                        /\ \A f \in StoredResultFields :
                              resp'.results[1][f] = latest[f]]_vars

\* The locator decoder on its own: strings and formatted pairs, looked up in
\* an index that does not change.
MaxLocatorLen == 3

LocatorNumbers ==
    {U32(0), U32(1), U32(10), U32(Limb - 1), U32(Limb), U32(2147483647),
     [hi |-> Limb \div 2, lo |-> 0], U32_MAX}

LocatorPairs == [segment_ord : LocatorNumbers, doc_id : LocatorNumbers]

LocatorStrings ==
    StringsUpTo({"0", "1", ":", "+"}, MaxLocatorLen)
    \cup {FormatDocAddress(p) : p \in LocatorPairs}
    \cup {<<"+", "0", ":", "+", "1">>, <<"0", "0", ":", "0", "1">>,
          <<" ", "0", ":", "1">>, <<"0", ":", "1", " ">>, <<"-", "0", ":", "1">>,
          <<"0", ":", "1", ":", "0">>, <<"a", ":", "1">>, <<"0", ",", "1">>,
          FormatU32(U32_MAX) \o <<"0", ":", "1">>,
          <<"4", "2", "9", "4", "9", "6", "7", "2", "9", "6", ":", "0">>,
          <<"0", ":", "4", "2", "9", "4", "9", "6", "7", "2", "9", "6">>}

InitLocator ==
    /\ \E corpus \in Corpora :
          /\ pending = corpus
          /\ committed = corpus
          /\ reader = corpus
    /\ nextAddr = Cardinality(Pool) + 1
    /\ wpc = "idle"
    /\ spc = "idle"
    /\ \E doc_address_str \in LocatorStrings : sreq = PlainRequest(doc_address_str)
    /\ searcher = {}
    /\ resp = NoResponse
    /\ hist = InitHist
    /\ segments = Flushed(<<>>, committed)
    /\ rsegments = Flushed(<<>>, committed)
    /\ index_dir = "intact"
    /\ task = NoTask

NextLocator ==
    \/ get_file_by_doc_address(sreq.query)
    \/ lookup_return

SpecLocator == InitLocator /\ [][NextLocator]_vars

\* Two decimal numbers separated by one ':'.
TwoDecimals(s) ==
    \E i \in 2..Len(s) - 1 :
        /\ s[i] = ":"
        /\ \A j \in (1..Len(s)) \ {i} : IsDigit(s[j])

InvalidLocatorErrors ==
    {"Invalid doc_address format", "Invalid segment_ord", "Invalid doc_id"}

\* C30: the locator written for a pair (segment_ord, doc_id) of u32 decodes to
\* that pair, and every string that is not two decimal numbers separated by a
\* single ':' is answered with an invalid-locator error, never with absent or
\* a document.
C30_LocatorRoundTripAndRejection ==
    spc = "get_file_by_doc_address"
        => /\ \A p \in LocatorPairs :
                 sreq.query = FormatDocAddress(p) => hist.decoded = Some(p)
           /\ ~TwoDecimals(sreq.query)
                 => resp.status = "err" /\ resp.error \in InvalidLocatorErrors

\* The round trip of C30 alone.
C30_RoundTrip ==
    spc = "get_file_by_doc_address"
        => \A p \in LocatorPairs :
               sreq.query = FormatDocAddress(p) => hist.decoded = Some(p)

-----------------------------------------------------------------------------
(* Index health: check_health of the metrics collector and                 *)
(* perform_health_check of the admin API, which are the same computation.  *)

\* size_bytes as f64 / 1_048_576.0: the sizes are kept in bytes, and a size
\* in MB is compared with a threshold n by comparing the bytes with n MB.
BytesPerMb == 1048576

BelowMb(total_size_bytes, n) == total_size_bytes < n * BytesPerMb

\* The segment boundary that is still Warning.
WarningSegments == 25

\* Health checks that call a segment count of WarningSegments Critical.
SegmentsCriticalEarly(stats) ==
    [segment_count |-> stats.segment_count,
     segment_health |-> IF stats.segment_count <= 20 THEN "Healthy"
                        ELSE IF stats.segment_count < WarningSegments THEN "Warning"
                        ELSE "Critical",
     cache_health |-> "Healthy",
     deletion_health |-> "Healthy",
     index_size_bytes |-> stats.total_size_bytes,
     size_health |-> IF BelowMb(stats.total_size_bytes, 500) THEN "Healthy"
                     ELSE IF BelowMb(stats.total_size_bytes, 1000) THEN "Warning"
                     ELSE "Critical"]

\* perform_health_checks: the level of the segment count and of the size.
perform_health_checks(stats) ==
    [segment_count |-> stats.segment_count,
     segment_health |-> IF stats.segment_count <= 20 THEN "Healthy"
                        ELSE IF stats.segment_count <= WarningSegments THEN "Warning"
                        ELSE "Critical",
     cache_health |-> "Healthy",
     deletion_health |-> "Healthy",
     index_size_bytes |-> stats.total_size_bytes,
     size_health |-> IF BelowMb(stats.total_size_bytes, 500) THEN "Healthy"
                     ELSE IF BelowMb(stats.total_size_bytes, 1000) THEN "Warning"
                     ELSE "Critical"]

\* identify_issues: one issue at most for the segments, then one at most for
\* the size.
identify_issues(checks) ==
    (IF checks.segment_health = "Critical"
     THEN <<[severity |-> "High", description |-> "Too many segments in index"]>>
     ELSE IF checks.segment_health = "Warning"
     THEN <<[severity |-> "Medium",
             description |-> "Segment count is high, consider optimization"]>>
     ELSE <<>>)
    \o
    (IF checks.size_health = "Critical"
     THEN <<[severity |-> "High",
             description |-> "Index size is very large, may impact performance"]>>
     ELSE IF checks.size_health = "Warning"
     THEN <<[severity |-> "Medium", description |-> "Index size is getting large"]>>
     ELSE <<>>)

\* #[derive(PartialOrd, Ord)] on IssueSeverity: the variants are ordered as
\* they are declared, High, Medium, Low, so that High is the least.
IssueSeverityOrd(severity) ==
    CASE severity = "High" -> 0
      [] severity = "Medium" -> 1
      [] severity = "Low" -> 2

\* issues.iter().map(|i| i.severity).max()
MaxSeverity(issues) ==
    IF issues = <<>> THEN None
    ELSE Some((CHOOSE i \in DocsOf(issues) :
                  \A j \in DocsOf(issues) :
                      IssueSeverityOrd(j.severity) <= IssueSeverityOrd(i.severity)).severity)

\* The overall status of check_health / perform_health_check.
HealthStatusOf(issues) ==
    CASE MaxSeverity(issues) = Some("High") -> "Degraded"
      [] MaxSeverity(issues) = Some("Medium") -> "Warning"
      [] OTHER -> "Healthy"

\* check_health(stats): the health response for the statistics of the task.
check_health ==
    /\ task.op = "none"
    /\ IsSome(task.stats)
    /\ LET health_checks == perform_health_checks(Unwrap(task.stats))
           issues == identify_issues(health_checks)
       IN  task' = [task EXCEPT
                      !.op = "check_health", !.pc = "done",
                      !.health = Some([status |-> HealthStatusOf(issues),
                                       health_checks |-> health_checks,
                                       issues |-> issues])]
    /\ UNCHANGED <<pending, committed, reader, nextAddr, wpc, SearchVars, hist,
                   segments, rsegments, index_dir>>

\* The statistics the health checks are given: every segment count around
\* the thresholds, and the sizes on both sides of the two size thresholds.
MaxSegments == 30

StatsInputs ==
    [segment_count : 0..MaxSegments,
     total_size_bytes : {0, 100 * BytesPerMb, 500 * BytesPerMb - 1, 500 * BytesPerMb,
                         1000 * BytesPerMb - 1, 1000 * BytesPerMb, 1500 * BytesPerMb}]

InitHealth ==
    /\ pending = {}
    /\ committed = {}
    /\ reader = {}
    /\ nextAddr = 1
    /\ wpc = "idle"
    /\ spc = "idle"
    /\ sreq = PlainRequest(<<>>)
    /\ searcher = {}
    /\ resp = NoResponse
    /\ hist = InitHist
    /\ segments = <<>>
    /\ rsegments = <<>>
    /\ index_dir = "intact"
    /\ \E stats \in StatsInputs : task = [NoTask EXCEPT !.stats = Some(stats)]

NextHealth == check_health

SpecHealth == InitHealth /\ [][NextHealth]_vars

\* The severities of the issues of the response.
Severities(issues) == {issues[k].severity : k \in 1..Len(issues)}

\* C31: the overall status is Degraded whenever an issue has High severity,
\* with or without Medium issues beside it, Warning when an issue is Medium
\* and none is High, and Healthy otherwise.
C31_StatusFollowsWorstIssue ==
    task.op = "check_health"
        => LET health == Unwrap(task.health)
           IN  health.status =
                   IF "High" \in Severities(health.issues) THEN "Degraded"
                   ELSE IF "Medium" \in Severities(health.issues) THEN "Warning"
                   ELSE "Healthy"

\* C32: segment health is Healthy up to 20 segments, Warning for 21..25 and
\* Critical above 25; size health is Healthy below 500 MB, Warning from 500 MB
\* to below 1000 MB and Critical from 1000 MB on.
C32_HealthThresholds ==
    task.op = "check_health"
        => LET stats == Unwrap(task.stats)
               checks == Unwrap(task.health).health_checks
           IN  /\ checks.segment_health =
                      IF stats.segment_count \in 0..20 THEN "Healthy"
                      ELSE IF stats.segment_count \in 21..25 THEN "Warning"
                      ELSE "Critical"
               /\ checks.size_health =
                      IF stats.total_size_bytes < 524288000 THEN "Healthy"
                      ELSE IF stats.total_size_bytes < 1048576000 THEN "Warning"
                      ELSE "Critical"

\* A check of 25 segments and of exactly 500 MB: both are Warning.
C32_Witness ==
    /\ task.op = "check_health"
    /\ Unwrap(task.stats).segment_count = 25
    /\ Unwrap(task.stats).total_size_bytes = 524288000
    /\ Unwrap(task.health).health_checks.segment_health = "Warning"
    /\ Unwrap(task.health).health_checks.size_health = "Warning"

-----------------------------------------------------------------------------
(* The writer configuration: load_config and the writer of                 *)
(* SearchService::new.                                                     *)

\* The value of a string of digits.
RECURSIVE DecimalValue(_)
DecimalValue(digits) ==
    IF digits = <<>> THEN 0
    ELSE 10 * DecimalValue(SubSeq(digits, 1, Len(digits) - 1))
             + DigitValue(digits[Len(digits)])

\* str::parse::<usize>(): an optional "+" and then at least one digit. The
\* texts of the environment below are too short to overflow a usize.
ParseUsize(s) ==
    LET digits == IF s # <<>> /\ s[1] = "+" THEN Tail(s) ELSE s
    IN  IF digits = <<>> \/ \E k \in 1..Len(digits) : ~IsDigit(digits[k])
        THEN Err("invalid digit found in string")
        ELSE Ok(DecimalValue(digits))

\* std::env::var(name).ok().and_then(|v| v.parse::<usize>().ok()): the
\* variable is None when unset and Some(text) when set.
EnvUsize(variable) ==
    IF IsSome(variable) /\ ParseUsize(Unwrap(variable)).ok
    THEN Some(ParseUsize(Unwrap(variable)).v)
    ELSE None

\* TantivyConfig::default()
DefaultConfig == [memory_mb |-> 200, num_threads |-> None, cpu_cores |-> 4]

\* TantivyConfig::from_env(): cpu_cores is the constant 4, whatever the
\* machine has.
from_env(env) ==
    [memory_mb |-> IF IsSome(EnvUsize(env.memory)) THEN Unwrap(EnvUsize(env.memory))
                   ELSE 200,
     num_threads |-> EnvUsize(env.threads),
     cpu_cores |-> 4]

\* TantivyConfig::validate()
ValidateConfig(config) ==
    IF config.memory_mb < 50 THEN Err("KLASK_TANTIVY_MEMORY_MB must be at least 50")
    ELSE IF config.memory_mb > 8000
    THEN Err("KLASK_TANTIVY_MEMORY_MB must not exceed 8000")
    ELSE IF IsSome(config.num_threads) /\ Unwrap(config.num_threads) < 1
    THEN Err("KLASK_TANTIVY_NUM_THREADS must be at least 1")
    ELSE IF IsSome(config.num_threads)
            /\ Unwrap(config.num_threads) > config.cpu_cores * 2
    THEN Err("KLASK_TANTIVY_NUM_THREADS exceeds 2x CPU cores")
    ELSE Ok(<<>>)

\* load_config(): the configuration of the environment when it validates,
\* the default configuration otherwise.
load_config ==
    /\ task.op = "none"
    /\ IsSome(task.env)
    /\ LET config == from_env(Unwrap(task.env))
       IN  task' = [task EXCEPT
                      !.op = "load_config", !.pc = "done",
                      !.config = Some(IF ValidateConfig(config).ok THEN config
                                      ELSE DefaultConfig)]
    /\ UNCHANGED <<pending, committed, reader, nextAddr, wpc, SearchVars, hist,
                   segments, rsegments, index_dir>>

\* index.writer(memory_bytes) and index.writer_with_num_threads(n, memory_bytes)
\* with memory_bytes = memory_mb * 1_000_000: the writer is built when each
\* thread gets at least 15 MB; without a thread count tantivy takes up to 8
\* threads of the machine and fewer when the budget is too small for them.
\* A budget tantivy refuses makes SearchService::new fail.
WriterOf(memory_mb, num_threads, cpu_cores) ==
    IF IsSome(num_threads)
    THEN IF Unwrap(num_threads) >= 1 /\ memory_mb >= 15 * Unwrap(num_threads)
         THEN Some([memory_mb |-> memory_mb, num_threads |-> num_threads])
         ELSE None
    ELSE IF memory_mb >= 15
         THEN Some([memory_mb |-> memory_mb, num_threads |-> None])
         ELSE None

\* SearchService::new: the two variables are read again, and nothing checks
\* them.
new ==
    /\ task.op = "none"
    /\ IsSome(task.env)
    /\ LET env == Unwrap(task.env)
           memory_mb == IF IsSome(EnvUsize(env.memory)) THEN Unwrap(EnvUsize(env.memory))
                        ELSE 200
           writer == WriterOf(memory_mb, EnvUsize(env.threads), env.cpu_cores)
       IN  task' = [task EXCEPT
                      !.op = "new",
                      !.pc = IF IsSome(writer) THEN "done" ELSE "failed",
                      !.writer = writer]
    /\ UNCHANGED <<pending, committed, reader, nextAddr, wpc, SearchVars, hist,
                   segments, rsegments, index_dir>>

\* The environments: each variable unset or set to a text, on a machine of
\* cpu_cores cores.
MemoryTexts ==
    {<<"a", "b", "c">>, <<"-", "1">>, <<"0">>, <<"4", "9">>, <<"5", "0">>,
     <<"3", "0", "0">>, <<"8", "0", "0", "0">>, <<"8", "0", "0", "1">>}

ThreadTexts ==
    {<<"a", "b", "c">>, <<"0">>, <<"1">>, <<"4">>, <<"8">>, <<"9">>, <<"1", "0", "0">>}

Environments ==
    [memory : {None} \cup {Some(t) : t \in MemoryTexts},
     threads : {None} \cup {Some(t) : t \in ThreadTexts},
     cpu_cores : {2, 4}]

InitConfig ==
    /\ pending = {}
    /\ committed = {}
    /\ reader = {}
    /\ nextAddr = 1
    /\ wpc = "idle"
    /\ spc = "idle"
    /\ sreq = PlainRequest(<<>>)
    /\ searcher = {}
    /\ resp = NoResponse
    /\ hist = InitHist
    /\ segments = <<>>
    /\ rsegments = <<>>
    /\ index_dir = "intact"
    /\ \E env \in Environments : task = [NoTask EXCEPT !.env = Some(env)]

NextConfig ==
    \/ load_config
    \/ new

SpecConfig == InitConfig /\ [][NextConfig]_vars

\* The memory of the environment as the claims read it: a number of MB, 200
\* when the variable is unset, and nothing when the text is not a number.
DecimalTexts ==
    {<<"0">>, <<"1">>, <<"4">>, <<"8">>, <<"9">>, <<"4", "9">>, <<"5", "0">>,
     <<"1", "0", "0">>, <<"3", "0", "0">>, <<"8", "0", "0", "0">>,
     <<"8", "0", "0", "1">>}

NumberOf(text) ==
    CASE text = <<"0">> -> 0 [] text = <<"1">> -> 1 [] text = <<"4">> -> 4
      [] text = <<"8">> -> 8 [] text = <<"9">> -> 9 [] text = <<"4", "9">> -> 49
      [] text = <<"5", "0">> -> 50 [] text = <<"1", "0", "0">> -> 100
      [] text = <<"3", "0", "0">> -> 300 [] text = <<"8", "0", "0", "0">> -> 8000
      [] text = <<"8", "0", "0", "1">> -> 8001

MemoryInRange(env) ==
    \/ env.memory = None
    \/ /\ Unwrap(env.memory) \in DecimalTexts
       /\ NumberOf(Unwrap(env.memory)) \in 50..8000

ThreadsInRange(env) ==
    \/ env.threads = None
    \/ /\ Unwrap(env.threads) \in DecimalTexts
       /\ NumberOf(Unwrap(env.threads)) \in 1..(2 * env.cpu_cores)

\* C33: load_config returns the values read from the environment exactly when
\* the memory is in [50, 8000] MB and the thread count is unset or in
\* [1, 2 x cpu_cores]; in every other case it returns the complete default
\* configuration (200 MB, no thread count), never a mix.
C33_LoadConfigAllOrDefault ==
    task.op = "load_config"
        => LET env == Unwrap(task.env)
               config == Unwrap(task.config)
           IN  IF MemoryInRange(env) /\ ThreadsInRange(env)
               THEN /\ config.memory_mb = IF env.memory = None THEN 200
                                          ELSE NumberOf(Unwrap(env.memory))
                    /\ config.num_threads = IF env.threads = None THEN None
                                            ELSE Some(NumberOf(Unwrap(env.threads)))
               ELSE config.memory_mb = 200 /\ config.num_threads = None

\* C33 for the environments whose variables are unset or numbers, on a
\* machine of 4 cores.
C33_LoadConfigOfNumbers ==
    (/\ task.op = "load_config"
     /\ Unwrap(task.env).cpu_cores = 4
     /\ Unwrap(task.env).memory \in {None} \cup {Some(t) : t \in DecimalTexts}
     /\ Unwrap(task.env).threads \in {None} \cup {Some(t) : t \in DecimalTexts})
        => C33_LoadConfigAllOrDefault

\* C34: the writer built when the index is opened never has a memory budget
\* outside [50, 8000] MB nor a thread count outside [1, 2 x cpu cores].
C34_WriterWithinLimits ==
    (task.op = "new" /\ IsSome(task.writer))
        => LET writer == Unwrap(task.writer)
           IN  /\ writer.memory_mb \in 50..8000
               /\ \/ writer.num_threads = None
                  \/ Unwrap(writer.num_threads) \in 1..(2 * Unwrap(task.env).cpu_cores)

-----------------------------------------------------------------------------
(* Regex mode field by field, failed upserts, and tasks that interleave.   *)

\* The searchable fields that admit the pattern of the request.
AdmittingFields(sq) ==
    {f \in {"content", "file_name", "file_path"} : RegexFromPattern(sq.query, f).ok}

\* C35: in regex mode a field that does not admit the pattern is skipped
\* without failing the search, content, file_name and file_path alike; the
\* search fails, with the error that no searchable field matched, only when
\* all three fields fail.
C35_RegexFieldsSkippedAlike ==
    (sreq.regex_search /\ resp.status # "none")
        => IF AdmittingFields(sreq) = {}
           THEN /\ Failed
                /\ resp.error = "Regex pattern did not match any searchable fields"
           ELSE resp.error # "Invalid regex pattern"

\* upsert_file whose add_document fails: the delete is staged, the `?` of the
\* add returns the error, and the writer keeps the delete. hist.failure is
\* the call: the step that failed, what the caller is given, and the documents
\* the writer held before the call.
upsert_add_failed(fd) ==
    /\ wpc = "idle"
    /\ pending' = DeleteQuery(pending, FileIdTerm(fd.file_id))
    /\ wpc' = "upsert_file"
    /\ hist' = [hist EXCEPT
                  !.failure = Some([file_id |-> UuidToString(fd.file_id),
                                    step |-> "add", returned |-> "Err",
                                    before |-> pending])]
    /\ UNCHANGED <<committed, reader, nextAddr, SearchVars, segments, rsegments,
                   TaskVars>>

\* upsert_file whose delete_query fails: `let _ =` drops the error, the
\* document is added and the call returns Ok.
upsert_delete_failed(fd) ==
    /\ wpc = "idle"
    /\ nextAddr <= MaxAdds
    /\ pending' = pending \cup {NewDoc(fd, nextAddr)}
    /\ nextAddr' = nextAddr + 1
    /\ wpc' = "upsert_file"
    /\ hist' = [hist EXCEPT
                  !.lastUpsert[fd.file_id] = Some(fd),
                  !.failure = Some([file_id |-> UuidToString(fd.file_id),
                                    step |-> "delete", returned |-> "Ok",
                                    before |-> pending])]
    /\ UNCHANGED <<committed, reader, SearchVars, segments, rsegments, TaskVars>>

\* The upsert with a failed step returns and releases the writer lock.
upsert_returned ==
    /\ wpc = "upsert_file"
    /\ wpc' = "idle"
    /\ hist' = [hist EXCEPT !.failure = None]
    /\ UNCHANGED <<pending, committed, reader, nextAddr, SearchVars, segments,
                   rsegments, TaskVars>>

NextUpserts ==
    \/ \E fd \in FileInputs : upsert_file(fd)
    \/ \E fd \in FileInputs : upsert_add_failed(fd)
    \/ \E fd \in FileInputs : upsert_delete_failed(fd)
    \/ upsert_returned
    \/ commit
    \/ reader_reload

SpecUpserts == Init /\ [][NextUpserts]_vars

\* C36, the add step: an upsert whose add fails leaves in the writer every
\* document of its file_id the writer held, so that the next commit leaves
\* the committed one live.
C36_FailedAddKeepsTheDocument ==
    (IsSome(hist.failure) /\ Unwrap(hist.failure).step = "add")
        => {d \in Unwrap(hist.failure).before :
               d.file_id = Unwrap(hist.failure).file_id} \subseteq pending

\* C36: if the add step of upsert_file fails for a file_id that has a
\* committed document, the delete the upsert staged is not applied without
\* its add; and a failure of the delete step is reported to the caller.
C36_FailedUpsertIsWholeAndReported ==
    IsSome(hist.failure)
        => /\ Unwrap(hist.failure).step = "add"
                => {d \in Unwrap(hist.failure).before :
                       d.file_id = Unwrap(hist.failure).file_id} \subseteq pending
           /\ Unwrap(hist.failure).step = "delete"
                => Unwrap(hist.failure).returned = "Err"

\* update_project_name, line 348: the searcher is taken before the writer
\* lock is asked for, and the task then waits for the lock.
update_project_name_snapshot(old_project, new_project) ==
    /\ task.op = "none"
    /\ task' = [NoTask EXCEPT
                  !.op = "update_project_name", !.pc = "lock",
                  !.snapshot = reader,
                  !.old_project = old_project, !.new_project = new_project]
    /\ UNCHANGED <<pending, committed, reader, nextAddr, wpc, SearchVars, hist,
                   segments, rsegments, index_dir>>

\* update_project_name, lines 349-399: with the lock, the documents of the
\* old project in the searcher taken before are added again with the new
\* project, the old project's documents are deleted and the writer commits.
update_project_name_locked ==
    /\ task.op = "update_project_name"
    /\ task.pc = "lock"
    /\ wpc = "idle"
    /\ LET top_docs == ByAddress({d \in task.snapshot :
                           Matches(TermQuery("project", task.old_project), d)})
           added == {[top_docs[k] EXCEPT !.addr = nextAddr + k - 1,
                                         !.project = task.new_project] :
                        k \in 1..Len(top_docs)}
           left == DeleteQuery(pending \cup added,
                               TermQuery("project", task.old_project))
       IN /\ nextAddr + Len(top_docs) - 1 <= MaxAdds
          /\ nextAddr' = nextAddr + Len(top_docs)
          /\ pending' = left
          /\ committed' = left
          /\ hist' = [Published(hist, left) EXCEPT
                        !.onlyUpserts = FALSE,
                        !.rename = Some([before |-> pending, old |-> task.old_project,
                                         new |-> task.new_project,
                                         count |-> Len(top_docs)]),
                        !.renames = @ \cup RenameRecord(pending, added, task.old_project)]
    /\ wpc' = "update_project_name"
    /\ task' = NoTask
    /\ segments' = Flushed(segments, committed')
    /\ UNCHANGED <<reader, SearchVars, rsegments, index_dir>>

\* A rename task beside a task that upserts and commits.
NextRace ==
    \/ \E fd \in ReaderInputs : upsert_file(fd)
    \/ commit
    \/ reader_reload
    \/ update_project_name_snapshot(S_p1, S_p2)
    \/ update_project_name_locked

SpecRace == Init /\ [][NextRace]_vars

\* Both tasks have returned, everything is committed and served, and the
\* rename has run.
RaceOver ==
    /\ wpc = "idle"
    /\ task.op = "none"
    /\ pending = committed
    /\ reader = committed
    /\ hist.renames # {}

\* C37: whatever the interleaving of update_project_name with the upsert_file
\* and commit of another task, once both have returned the index holds
\* exactly one live document for the file_id and it carries the content of
\* the latest upsert.
C37_RenameLosesNoUpsert ==
    RaceOver
        => \A file_id \in FileIds :
               IsSome(hist.lastUpsert[file_id])
                   => \E d \in committed :
                         /\ {e \in committed : e.file_id = d.file_id} = {d}
                         /\ d.file_id = UuidToString(file_id)
                         /\ d.content = Unwrap(hist.lastUpsert[file_id]).content

\* C37 without the count: the content of the latest upsert is still live.
C37_LatestUpsertIsLive ==
    RaceOver
        => \A file_id \in FileIds :
               IsSome(hist.lastUpsert[file_id])
                   => \E d \in committed :
                         /\ d.file_id = UuidToString(file_id)
                         /\ d.content = Unwrap(hist.lastUpsert[file_id]).content


\* A task that upserts and commits beside another task that runs the
\* operations which commit the one writer of the service on their own.
NextShared ==
    \/ \E fd \in ReaderInputs : upsert_file(fd)
    \/ commit
    \/ reader_reload
    \/ \E repository \in {S_r1, S_r2} : delete_project_documents(repository)
    \/ \E old_project \in {S_p1, S_p2} :
          update_project_name(old_project, IF old_project = S_p1 THEN S_p2 ELSE S_p1)
    \/ clear_index
    \/ reset_index_recreate
    \/ reset_index
    \/ merge_measure
    \/ merge_commit
    \/ merge_reload
    \/ merge_finish
    \/ merge_return

SpecShared == Init /\ [][NextShared]_vars

\* The documents a task has staged with upsert_file and not committed yet.
StagedUpserts == pending \ committed

\* C38: the upserts a task has staged and not yet committed are published
\* only by that task's commit: no step of delete_project_documents,
\* update_project_name, clear_index, reset_index or apply_merge_policy makes
\* one of them committed or served by the reader.
C38_StagedUpsertsAreNotPublishedByOthers ==
    [][wpc' # "commit" => StagedUpserts \cap (committed' \cup reader') = {}]_vars

\* C38 for the two operations that delete everything before they commit.
C38_ClearAndResetPublishNothing ==
    [][(pending' = {} /\ wpc' # "commit")
          => StagedUpserts \cap (committed' \cup reader') = {}]_vars


\* Termination of the operations that take the writer lock.  wpc is the
\* holder of the lock ("idle" when it is free); the task is one caller of
\* reset_index or apply_merge_policy, and the other steps are the operations
\* of any other task, a second apply_merge_policy being a commit followed by
\* a commit as far as the lock goes.
NextLive ==
    \/ \E fd \in ReaderInputs : upsert_file(fd)
    \/ commit
    \/ \E repository \in {S_r1, S_r2} : delete_project_documents(repository)
    \/ clear_index
    \/ reader_reload
    \/ reset_index_recreate
    \/ reset_index
    \/ merge_measure
    \/ merge_commit
    \/ merge_reload
    \/ merge_finish
    \/ merge_return

\* The steps in which the waiting task is granted the writer lock.
LockGranted == merge_commit \/ merge_finish \/ reset_index

\* tokio's RwLock queues its waiters and grants the lock in that order, so a
\* task that waits is granted the lock although other operations take and
\* release it meanwhile (strong fairness); a task that holds the lock or has
\* its result runs on (weak fairness).
Fairness ==
    /\ SF_vars(LockGranted)
    /\ WF_vars(reader_reload)
    /\ WF_vars(merge_reload)
    /\ WF_vars(merge_return)

SpecLive == Init /\ [][NextLive]_vars /\ Fairness

\* The task waits for the writer lock.
TaskWaits == task.pc \in {"commit", "lock"}

\* C39: apply_merge_policy never waits for the writer lock while its own
\* commit holds it, and with fair granting every operation that has asked
\* for the lock gets it, releases it and returns; so does apply_merge_policy,
\* which takes the lock twice.
C39_WriteOperationsTerminate ==
    /\ [](TaskWaits => wpc # "apply_merge_policy")
    /\ (task.op # "none" ~> task.op = "none")
    /\ (wpc # "idle" ~> wpc = "idle")

\* apply_merge_policy waits for its second lock while another operation
\* holds the lock.
C39_Witness ==
    /\ task.op = "apply_merge_policy"
    /\ task.pc = "lock"
    /\ wpc \in WriterSections

=============================================================================
